---- MODULE Spec2Model ----
(***************************************************************************)
(* Model of the SecureBot gateway: the skill registry, the GLiClass intent *)
(* classifier, skill generation/validation and the route_query pipeline    *)
(* (src/gateway/orchestrator.py, src/gateway/gliclass_classifier.py).      *)
(*                                                                         *)
(* Text is a sequence of tokens (a token is one character or one word).    *)
(* A Python dict is an insertion-ordered sequence of [key, value] pairs.   *)
(***************************************************************************)
EXTENDS Integers, Sequences, FiniteSets, TLC

VARIABLES
    disk,       \* skills directory: directory name -> entry
    registry,   \* SkillRegistry._registry, an insertion-ordered dict
    pipeline,   \* gliclass_classifier._pipeline is loaded (TRUE) or None (FALSE)
    req,        \* the route_query coroutine in flight (its locals and position)
    served,     \* number of requests started so far
    hist,       \* registry history: last reload and last trigger lookup
    cls,        \* one classify_intent call: inputs and result
    val,        \* one _validate_and_save_skill call: inputs and result
    san,        \* one sanitizer call: inputs and result
    appr,       \* approval store, the resolve calls in flight and the Vault
    loop,       \* event loop of one service instance: its route_query coroutines
    skill_matcher, \* GatewayService.skill_matcher.skills, read by GET /skills
    auth,       \* common/auth.py: the clock, NONCE_CACHE and the requests accepted
    tracker,    \* vault UsageTracker: one provider's counters and the clock
    legacy      \* one call of the rule-based IntentClassifier: query and result

vars == <<disk, registry, pipeline, req, served, hist, cls, val, san, appr, loop,
          skill_matcher, auth, tracker, legacy>>

(***************************************************************************)
(* Bounds                                                                  *)
(***************************************************************************)
MaxRequests == 2      \* requests served in one behaviour
MaxQueryLen == 2      \* tokens in a looked-up query
MaxShortName == 3     \* exhaustively enumerated candidate names up to this length
MaxResults == 2       \* labels the zero-shot pipeline returns above threshold

(***************************************************************************)
(* Text helpers                                                            *)
(***************************************************************************)
Lower(c) ==
    IF c = "A" THEN "a"
    ELSE IF c = "B" THEN "b"
    ELSE IF c = "TODAY" THEN "today"
    ELSE IF c = "Explain" THEN "explain"
    ELSE c

lower(s) == [i \in 1..Len(s) |-> Lower(s[i])]

\* Python's `sub in s` on strings
Contains(s, sub) ==
    \E i \in 0..(Len(s) - Len(sub)) : SubSeq(s, i + 1, i + Len(sub)) = sub

\* Python's str.startswith
StartsWith(s, p) == Len(s) >= Len(p) /\ SubSeq(s, 1, Len(p)) = p

SeqsUpTo(S, n) == UNION {[1..k -> S] : k \in 0..n}

(***************************************************************************)
(* Insertion-ordered dict                                                  *)
(***************************************************************************)
None == [kind |-> "None"]

DictHas(d, k) == \E i \in 1..Len(d) : d[i].key = k

DictIndex(d, k) == CHOOSE i \in 1..Len(d) : d[i].key = k

\* dict.get(k): the value or None
DictGet(d, k) == IF DictHas(d, k) THEN d[DictIndex(d, k)].value ELSE None

\* d[k] = v keeps the position of an existing key, appends a new one
DictSet(d, k, v) ==
    IF DictHas(d, k)
    THEN [d EXCEPT ![DictIndex(d, k)].value = v]
    ELSE Append(d, [key |-> k, value |-> v])

(***************************************************************************)
(* The skills directory                                                    *)
(***************************************************************************)
TriggerPrefix == "__trigger__"

D1 == <<"s", "1">>
D2 == <<"s", "2">>
GenDir == <<"g", "-", "7">>

\* the order in which skills_dir.iterdir() yields the directories
DirOrder == <<D1, GenDir, D2>>

DirNames == {DirOrder[i] : i \in 1..Len(DirOrder)}

NonStr == <<"#int">>     \* a trigger list item that is not a string

NoTriggers == [kind |-> "absent", items |-> <<>>]
NullTriggers == [kind |-> "null", items |-> <<>>]
TriggerList(items) == [kind |-> "list", items |-> items]

Absent == [kind |-> "absent"]

\* the header sets no timeout
NoTimeout == [set |-> FALSE, secs |-> 0]

SkillFile(fmt, header, name, triggers, mode, script, ver) ==
    [kind |-> fmt, header |-> header, name |-> name, triggers |-> triggers,
     mode |-> mode, script |-> script, ver |-> ver, timeout |-> NoTimeout]

\* the same definition with "timeout: secs" in its header
WithTimeout(f, secs) == [f EXCEPT !.timeout = [set |-> TRUE, secs |-> secs]]

FileA == SkillFile("md", "map", <<"p">>, TriggerList(<< <<"a">> >>), "bash", TRUE, 1)
FileAB == SkillFile("md", "map", <<"q">>,
                    TriggerList(<< <<"b">>, <<"A">> >>), "absent", FALSE, 1)
FileNull == SkillFile("md", "map", <<"n">>, NullTriggers, "ollama", FALSE, 1)
FileBadItem == SkillFile("md", "map", <<"m">>,
                         TriggerList(<< <<"b">>, NonStr, <<"a">> >>), "ollama", FALSE, 1)
FileUnparsable == SkillFile("md", "unparsable", <<>>, NoTriggers, "absent", FALSE, 1)
FileYaml == SkillFile("yaml", "map", <<"y">>, TriggerList(<< <<"a", "b">> >>), "bash", FALSE, 1)
FileOther == SkillFile("md", "map", <<"o">>, TriggerList(<< <<"b">> >>), "python", TRUE, 1)
FileTimed == WithTimeout(FileA, 3)

\* files an operator may drop into the skills directory
RouterFiles == {FileA, FileAB, FileOther}

(***************************************************************************)
(* SkillRegistry                                                           *)
(***************************************************************************)
NoName == <<"#none">>

\* the dict a definition file parses to (header fields only)
Meta(e) ==
    IF e.header = "map"
    THEN [name |-> e.name, triggers |-> e.triggers, mode |-> e.mode]
    ELSE [name |-> NoName, triggers |-> NoTriggers, mode |-> "absent"]

\* the registry value stored under a skill's directory name
SkillValue(dname, e) ==
    [kind |-> "skill", path |-> dname, fmt |-> e.kind, name |-> Meta(e).name,
     triggers |-> Meta(e).triggers, mode |-> Meta(e).mode,
     script |-> (e.kind = "md" /\ e.script), ver |-> e.ver, timeout |-> e.timeout]

OwnerValue(dname) == [kind |-> "owner", name |-> dname]

TriggerKey(t) == <<TriggerPrefix>> \o t

\* parsing raises before anything is stored: yaml error, or a header that is
\* not a mapping (item assignment on a list/str/None raises TypeError)
ParseRaises(e) ==
    \/ e.header \in {"unparsable", "notmap"}
    \/ e.kind = "yaml" /\ e.header = "empty"

\* for trigger in meta.get("triggers", []): registry["__trigger__" + lower] = name
\* stops at the first item whose .lower() raises
RECURSIVE RegisterTriggers(_, _, _, _)
RegisterTriggers(reg, items, i, dname) ==
    IF i > Len(items) \/ items[i] = NonStr
    THEN reg
    ELSE RegisterTriggers(DictSet(reg, TriggerKey(lower(items[i])), OwnerValue(dname)),
                          items, i + 1, dname)

\* one iteration of the loop body of _load_all
LoadEntry(reg, dname, e) ==
    IF e.kind \notin {"md", "yaml"} \/ ParseRaises(e)
    THEN reg
    ELSE RegisterTriggers(DictSet(reg, dname, SkillValue(dname, e)),
                          Meta(e).triggers.items, 1, dname)

\* ioFail: 0 when iterdir() itself raises, i when is_dir()/exists() of the
\* i-th directory raises OSError (outside the try blocks), NoIoError otherwise
NoIoError == Len(DirOrder) + 1

\* the skills directory itself does not exist (it then holds no skill)
RootMissing == NoIoError + 1

RECURSIVE LoadFrom(_, _, _, _)
LoadFrom(reg, d, i, ioFail) ==
    IF i > Len(DirOrder)
    THEN [reg |-> reg, raised |-> FALSE]
    ELSE IF d[DirOrder[i]].kind = "absent"
    THEN LoadFrom(reg, d, i + 1, ioFail)
    ELSE IF ioFail = i
    THEN [reg |-> reg, raised |-> TRUE]
    ELSE LoadFrom(LoadEntry(reg, DirOrder[i], d[DirOrder[i]]), d, i + 1, ioFail)

_load_all(reg, d, ioFail) ==
    IF ioFail = RootMissing /\ \A n \in DirNames : d[n].kind = "absent"
    THEN [reg |-> reg, raised |-> FALSE]
    ELSE IF ioFail = 0
    THEN [reg |-> reg, raised |-> TRUE]
    ELSE LoadFrom(reg, d, 1, ioFail)

\* reload without self._registry.clear()
reload_NoClear(reg, d, ioFail) == _load_all(reg, d, ioFail)

\* SkillRegistry.reload: clear, then rebuild in place
reload(reg, d, ioFail) == _load_all(<<>>, d, ioFail)

\* SkillRegistry.get
get(reg, skill_name) == DictGet(reg, skill_name)

IsTriggerKey(k) == Len(k) >= 1 /\ k[1] = TriggerPrefix

\* the containment test applied to the message as typed, not lowered
Matches_CaseSensitive(reg, user_message) ==
    {i \in 1..Len(reg) :
        /\ IsTriggerKey(reg[i].key)
        /\ Contains(user_message, Tail(reg[i].key))}

\* indexes of the trigger keys contained in the lowered message, in dict order
Matches(reg, user_message) ==
    {i \in 1..Len(reg) :
        /\ IsTriggerKey(reg[i].key)
        /\ Contains(lower(user_message), Tail(reg[i].key))}

Min(S) == CHOOSE x \in S : \A y \in S : x <= y
Max(S) == CHOOSE x \in S : \A y \in S : x >= y

\* find_by_trigger scanning in an order that differs from one call to the next
find_by_trigger_Unordered(reg, user_message) ==
    IF Matches(reg, user_message) = {}
    THEN None
    ELSE IF hist.op = "find"
    THEN DictGet(reg, reg[Max(Matches(reg, user_message))].value.name)
    ELSE DictGet(reg, reg[Min(Matches(reg, user_message))].value.name)

\* SkillRegistry.find_by_trigger
find_by_trigger(reg, user_message) ==
    IF Matches(reg, user_message) = {}
    THEN None
    ELSE DictGet(reg, reg[Min(Matches(reg, user_message))].value.name)

IoFailures == 0..RootMissing

(***************************************************************************)
(* Legacy SkillMatcher, kept for GET /skills                               *)
(***************************************************************************)
IdleMatcher == <<>>
IdleAuth == [phase |-> "idle"]
IdleTracker == [phase |-> "idle"]
IdleLegacy == [phase |-> "idle"]

\* SkillMatcher._parse_skill_file raises (caught in _load_skills): the yaml
\* error, or .get on a front matter that is a list, a string or None
MatcherRaises(e) == e.header # "map"

\* 'name': frontmatter.get('name', skill_file.parent.name)
MatcherName(dname, e) == IF e.name = NoName THEN dname ELSE e.name

\* SkillMatcher._load_skills: the directories that hold a SKILL.md, keyed by
\* the name of the front matter; is_skill_enabled with the default
\* configuration (nothing disabled, enabled_skills unset)
RECURSIVE MatcherLoadFrom(_, _, _)
MatcherLoadFrom(skills, d, i) ==
    IF i > Len(DirOrder)
    THEN skills
    ELSE LET e == d[DirOrder[i]]
         IN IF e.kind # "md" \/ MatcherRaises(e)
            THEN MatcherLoadFrom(skills, d, i + 1)
            ELSE MatcherLoadFrom(
                     DictSet(skills, MatcherName(DirOrder[i], e),
                             [name |-> MatcherName(DirOrder[i], e), path |-> DirOrder[i]]),
                     d, i + 1)

_load_skills(d) == MatcherLoadFrom(<<>>, d, 1)

\* GET /skills: the names of gateway.skill_matcher.skills
list_skills(skills) == {skills[i].value.name : i \in 1..Len(skills)}

\* SkillRegistry.list_all: the keys that are not trigger keys
list_all(reg) == {reg[i].key : i \in {j \in 1..Len(reg) : ~IsTriggerKey(reg[j].key)}}

\* POST /skills/reload: the names it reports
reload_skills(reg, d) == list_all(reload(reg, d, NoIoError).reg)

(***************************************************************************)
(* GLiClass intent classifier (gliclass_classifier.py)                     *)
(***************************************************************************)
INTENT_LABELS == <<"search", "action", "task", "memory", "knowledge", "chat">>

Labels == {INTENT_LABELS[i] : i \in 1..Len(INTENT_LABELS)}

\* scores are in tenths
CLASSIFICATION_THRESHOLD == 3

SearchWords == {"today"}

\* SEARCH_TRIGGERS.search(text), re.IGNORECASE
SEARCH_TRIGGERS(text) == \E i \in 1..Len(text) : Lower(text[i]) \in SearchWords

\* what _pipeline(text, labels, threshold=...)[0] keeps of the scored labels
AboveThreshold(scored) ==
    SelectSeq(scored, LAMBDA r : r.score > CLASSIFICATION_THRESHOLD)

\* max(results, key=score): the first element with the greatest score
Top(results) ==
    results[Min({i \in 1..Len(results) :
                    \A j \in 1..Len(results) : results[j].score <= results[i].score})]

Raise == [kind |-> "raise", scored |-> <<>>]
Scored(s) == [kind |-> "scored", scored |-> s]

\* classify_intent with the pipeline called without its threshold argument
classify_intent_NoThreshold(text, loaded, out) ==
    IF SEARCH_TRIGGERS(text)
    THEN [label |-> "search", score |-> 10]
    ELSE IF ~loaded
    THEN [label |-> "knowledge", score |-> 0]
    ELSE IF out.kind = "raise"
    THEN [label |-> "knowledge", score |-> 0]
    ELSE IF out.scored = <<>>
    THEN [label |-> "knowledge", score |-> 5]
    ELSE Top(out.scored)

\* classify_intent; out is what the pipeline call does (raise, or score labels)
classify_intent(text, loaded, out) ==
    IF SEARCH_TRIGGERS(text)
    THEN [label |-> "search", score |-> 10]
    ELSE IF ~loaded
    THEN [label |-> "knowledge", score |-> 0]
    ELSE IF out.kind = "raise"
    THEN [label |-> "knowledge", score |-> 0]
    ELSE IF AboveThreshold(out.scored) = <<>>
    THEN [label |-> "knowledge", score |-> 5]
    ELSE Top(AboveThreshold(out.scored))

(***************************************************************************)
(* Skill validation (_validate_and_save_skill)                             *)
(***************************************************************************)
_MAX_SKILL_CONTENT == 50000

MinInterior == 1
MaxInterior == 48

AlNum == {"a", "g", "s", "7", "1", "2"}
Interior == AlNum \cup {"_", "-"}

\* _SKILL_NAME_RE.match: ^[a-zA-Z0-9][a-zA-Z0-9_-]{1,48}[a-zA-Z0-9]$
_SKILL_NAME_RE(s) ==
    \E k \in MinInterior..MaxInterior :
        /\ Len(s) = k + 2
        /\ s[1] \in AlNum
        /\ \A i \in 2..(k + 1) : s[i] \in Interior
        /\ s[k + 2] \in AlNum

\* a path is a sequence of components; SKILLS_DIR is /sk
SkillsRoot == << <<"s", "k">> >>

\* str(path)
RECURSIVE Str(_)
Str(path) == IF path = <<>> THEN <<>> ELSE <<"/">> \o Head(path) \o Str(Tail(path))

\* split a name at "/" into components
RECURSIVE Split(_, _)
Split(s, cur) ==
    IF s = <<>> THEN <<cur>>
    ELSE IF Head(s) = "/" THEN <<cur>> \o Split(Tail(s), <<>>)
    ELSE Split(Tail(s), Append(cur, Head(s)))

\* Path.resolve: drop "" and ".", apply "..", follow symbolic links
RECURSIVE Normalize(_, _, _)
Normalize(base, comps, links) ==
    IF comps = <<>> THEN base
    ELSE IF Head(comps) \in {<<>>, <<".">>}
    THEN Normalize(base, Tail(comps), links)
    ELSE IF Head(comps) = <<".", ".">>
    THEN Normalize(IF base = <<>> THEN base ELSE SubSeq(base, 1, Len(base) - 1),
                   Tail(comps), links)
    ELSE IF Append(base, Head(comps)) \in DOMAIN links
    THEN Normalize(links[Append(base, Head(comps))], Tail(comps), links)
    ELSE Normalize(Append(base, Head(comps)), Tail(comps), links)

\* (skills_dir / skill_name).resolve(); an absolute name replaces skills_dir
Resolve(root, name, links) ==
    IF name # <<>> /\ Head(name) = "/"
    THEN Normalize(<<>>, Split(name, <<>>), links)
    ELSE Normalize(root, Split(name, <<>>), links)

Fail(reason) ==
    [success |-> FALSE, error |-> reason, skill_name |-> NoName, written |-> <<>>]

Saved(name, path) ==
    [success |-> TRUE, error |-> "", skill_name |-> name, written |-> path]

\* _validate_and_save_skill with the directory created before the traversal check
_validate_and_save_skill_MkdirFirst(content, root, links) ==
    IF content.size > _MAX_SKILL_CONTENT
    THEN Fail("Skill content too large")
    ELSE IF content.nameLine = NoName
    THEN Fail("No skill name in generated content")
    ELSE IF ~_SKILL_NAME_RE(content.nameLine)
    THEN Fail("Invalid skill name")
    ELSE IF ~StartsWith(Str(Resolve(root, content.nameLine, links)), Str(root))
    THEN [Fail("Path traversal detected") EXCEPT
             !.written = Resolve(root, content.nameLine, links)]
    ELSE Saved(content.nameLine, Resolve(root, content.nameLine, links))

\* content: [size, nameLine, file]; written is the directory created and
\* written to (<<>> when nothing is written)
_validate_and_save_skill(content, root, links) ==
    IF content.size > _MAX_SKILL_CONTENT
    THEN Fail("Skill content too large")
    ELSE IF content.nameLine = NoName
    THEN Fail("No skill name in generated content")
    ELSE IF ~_SKILL_NAME_RE(content.nameLine)
    THEN Fail("Invalid skill name")
    ELSE IF ~StartsWith(Str(Resolve(root, content.nameLine, links)), Str(root))
    THEN Fail("Path traversal detected")
    ELSE Saved(content.nameLine, Resolve(root, content.nameLine, links))

(***************************************************************************)
(* Regular expressions over text held as a sequence of characters          *)
(***************************************************************************)
LowerAlpha ==
    <<"a", "b", "c", "d", "e", "f", "g", "h", "i", "j", "k", "l", "m", "n", "o", "p", "q",
      "r", "s", "t", "u", "v", "w", "x", "y", "z">>

UpperAlpha ==
    <<"A", "B", "C", "D", "E", "F", "G", "H", "I", "J", "K", "L", "M", "N", "O", "P", "Q",
      "R", "S", "T", "U", "V", "W", "X", "Y", "Z">>

LowerLetters == {LowerAlpha[i] : i \in 1..Len(LowerAlpha)}
UpperLetters == {UpperAlpha[i] : i \in 1..Len(UpperAlpha)}
Letters == LowerLetters \cup UpperLetters
Digits == {"0", "1", "2", "3", "4", "5", "6", "7", "8", "9"}
HexDigits == Digits \cup {"a", "b", "c", "d", "e", "f", "A", "B", "C", "D", "E", "F"}

\* \w
WordChars == Letters \cup Digits \cup {"_"}

Space == {" ", "\n"}

AllChars ==
    WordChars \cup Space \cup
        {"@", ".", "-", ":", "%", "+", "|", "[", "]", "<", ">", "/", "=", "$"}

\* case folding of re.IGNORECASE
Fold(c) ==
    IF c \in UpperLetters
    THEN LowerAlpha[CHOOSE i \in 1..Len(UpperAlpha) : UpperAlpha[i] = c]
    ELSE c

\* pattern elements: a character class with a repetition count
One(S) == [set |-> S, min |-> 1, max |-> 1, more |-> FALSE, lazy |-> FALSE]
Times(S, lo, hi) == [set |-> S, min |-> lo, max |-> hi, more |-> FALSE, lazy |-> FALSE]
AtLeast(S, lo) == [set |-> S, min |-> lo, max |-> lo, more |-> TRUE, lazy |-> FALSE]
LazyAny == [set |-> AllChars, min |-> 0, max |-> 0, more |-> TRUE, lazy |-> TRUE]

\* a literal string; re.escape(word) under re.IGNORECASE
Lit(str) == [i \in 1..Len(str) |-> One({str[i]})]
LitNoCase(str) == [i \in 1..Len(str) |-> One({c \in AllChars : Fold(c) = Fold(str[i])})]

IsWordAt(s, i) == i >= 1 /\ i <= Len(s) /\ s[i] \in WordChars

\* \b between s[pos] and s[pos + 1]
Boundary(s, pos) == IsWordAt(s, pos) # IsWordAt(s, pos + 1)

\* the longest run of characters of the class that element e may take at pos
RunLen(s, pos, e) ==
    Max({n \in 0..(IF e.more THEN Len(s) - pos ELSE Min({e.max, Len(s) - pos})) :
            \A j \in 1..n : s[pos + j] \in e.set})

\* backtracking match of elements k.. at pos: the end of the match, or -1
RECURSIVE MatchFrom(_, _, _, _)
MatchFrom(pat, k, s, pos) ==
    IF k > Len(pat.els)
    THEN (IF pat.wb => Boundary(s, pos) THEN pos ELSE -1)
    ELSE LET e == pat.els[k]
             run == RunLen(s, pos, e)
             good == {n \in e.min..run : MatchFrom(pat, k + 1, s, pos + n) # -1}
         IN IF run < e.min THEN -1
            ELSE IF run = e.min THEN MatchFrom(pat, k + 1, s, pos + run)
            ELSE IF good = {} THEN -1
            ELSE MatchFrom(pat, k + 1, s, pos + (IF e.lazy THEN Min(good) ELSE Max(good)))

\* start positions at or after from where the pattern matches
Starts(pat, s, from) ==
    {i \in from..(Len(s) - 1) :
        /\ pat.wb => Boundary(s, i)
        /\ MatchFrom(pat, 1, s, i) # -1}

\* re.sub(pattern, repl, s): leftmost matches, left to right, not overlapping
RECURSIVE SubFrom(_, _, _, _)
SubFrom(pat, repl, s, from) ==
    LET starts == Starts(pat, s, from)
    IN IF starts = {}
       THEN SubSeq(s, from + 1, Len(s))
       ELSE SubSeq(s, from + 1, Min(starts)) \o repl
               \o SubFrom(pat, repl, s, MatchFrom(pat, 1, s, Min(starts)))

re_sub(pat, repl, s) == SubFrom(pat, repl, s, 0)

\* str.strip()
Strip(s) ==
    IF \A i \in 1..Len(s) : s[i] \in Space
    THEN <<>>
    ELSE SubSeq(s, Min({i \in 1..Len(s) : s[i] \notin Space}),
                   Max({i \in 1..Len(s) : s[i] \notin Space}))

(***************************************************************************)
(* The privacy sanitizer (_sanitize_for_cloud)                             *)
(***************************************************************************)
\* \b[A-Za-z0-9._%+-]+@[A-Za-z0-9.-]+\.[A-Z|a-z]{2,}\b
EmailRe ==
    [wb |-> TRUE,
     els |-> <<AtLeast(Letters \cup Digits \cup {".", "_", "%", "+", "-"}, 1), One({"@"}),
               AtLeast(Letters \cup Digits \cup {".", "-"}, 1), One({"."}),
               AtLeast(Letters \cup {"|"}, 2)>>]

\* \b\d{3}[-.]?\d{3}[-.]?\d{4}\b
PhoneRe ==
    [wb |-> TRUE,
     els |-> <<Times(Digits, 3, 3), Times({"-", "."}, 0, 1), Times(Digits, 3, 3),
               Times({"-", "."}, 0, 1), Times(Digits, 4, 4)>>]

\* \b\d{1,3}\.\d{1,3}\.\d{1,3}\.\d{1,3}\b
IpRe ==
    [wb |-> TRUE,
     els |-> <<Times(Digits, 1, 3), One({"."}), Times(Digits, 1, 3), One({"."}),
               Times(Digits, 1, 3), One({"."}), Times(Digits, 1, 3)>>]

\* \b([0-9A-Fa-f]{2}[:\-]){5}[0-9A-Fa-f]{2}\b
MacRe ==
    [wb |-> TRUE,
     els |-> <<Times(HexDigits, 2, 2), One({":", "-"}), Times(HexDigits, 2, 2), One({":", "-"}),
               Times(HexDigits, 2, 2), One({":", "-"}), Times(HexDigits, 2, 2), One({":", "-"}),
               Times(HexDigits, 2, 2), One({":", "-"}), Times(HexDigits, 2, 2)>>]

BeginMark ==
    <<"-", "-", "-", "-", "-", "B", "E", "G", "I", "N", " ">>
EndMark ==
    <<"-", "-", "-", "-", "-", "E", "N", "D", " ">>
KeyMark ==
    <<"P", "R", "I", "V", "A", "T", "E", " ", "K", "E", "Y", "-", "-", "-", "-", "-">>

\* -----BEGIN [A-Z ]*PRIVATE KEY-----.*?-----END [A-Z ]*PRIVATE KEY-----, DOTALL
KeyRe ==
    [wb |-> FALSE,
     els |-> Lit(BeginMark) \o <<AtLeast(UpperLetters \cup {" "}, 0)>> \o Lit(KeyMark)
                \o <<LazyAny>>
                \o Lit(EndMark) \o <<AtLeast(UpperLetters \cup {" "}, 0)>> \o Lit(KeyMark)]

EMAIL == <<"[", "E", "M", "A", "I", "L", "]">>
PHONE == <<"[", "P", "H", "O", "N", "E", "]">>
IP == <<"[", "I", "P", "]">>
MAC == <<"[", "M", "A", "C", "]">>
SSH_KEY == <<"[", "S", "S", "H", "_", "K", "E", "Y", "]">>
REDACTED == <<"[", "R", "E", "D", "A", "C", "T", "E", "D", "]">>

\* os.getenv("REDACT_WORDS", "Roland,Rolando,Mac").split(",")
REDACT_WORDS ==
    <<<<"R", "o", "l", "a", "n", "d">>,
      <<"R", "o", "l", "a", "n", "d", "o">>,
      <<"M", "a", "c">>>>

\* for word in ...: re.sub(re.escape(word), '[REDACTED]', ..., flags=re.IGNORECASE)
RECURSIVE Redact(_, _)
Redact(s, k) ==
    IF k > Len(REDACT_WORDS)
    THEN s
    ELSE Redact(re_sub([wb |-> FALSE, els |-> LitNoCase(REDACT_WORDS[k])], REDACTED, s),
                k + 1)

_sanitize_for_cloud(text) ==
    Strip(Redact(re_sub(KeyRe, SSH_KEY, re_sub(MacRe, MAC, re_sub(IpRe, IP,
                 re_sub(PhoneRe, PHONE, re_sub(EmailRe, EMAIL, text))))), 1))

(***************************************************************************)
(* The prompt-injection sanitizer of execute_skill (ollama mode)           *)
(***************************************************************************)
\* str.replace(old, new): occurrences left to right, not overlapping
RECURSIVE Replace(_, _, _)
Replace(s, old, new) ==
    IF ~Contains(s, old)
    THEN s
    ELSE LET i == Min({j \in 0..(Len(s) - Len(old)) : SubSeq(s, j + 1, j + Len(old)) = old})
         IN SubSeq(s, 1, i) \o new \o Replace(SubSeq(s, i + Len(old) + 1, Len(s)), old, new)

_INJECTION_DELIMITERS ==
    <<<<"-", "-", "-">>, <<"<", "s", ">">>,
      <<"[", "I", "N", "S", "T", "]">>,
      <<"<", "<", "S", "Y", "S", ">", ">">>,
      <<"<", "/", "s", ">">>,
      <<"[", "/", "I", "N", "S", "T", "]">>>>

MaxQueryChars == 2000

\* for delim in _INJECTION_DELIMITERS: safe_query = safe_query.replace(delim, '')
RECURSIVE StripDelimiters(_, _)
StripDelimiters(q, k) ==
    IF k > Len(_INJECTION_DELIMITERS)
    THEN q
    ELSE StripDelimiters(Replace(q, _INJECTION_DELIMITERS[k], <<>>), k + 1)

safe_query(user_query) ==
    IF Len(StripDelimiters(user_query, 1)) > MaxQueryChars
    THEN SubSeq(StripDelimiters(user_query, 1), 1, MaxQueryChars)
    ELSE StripDelimiters(user_query, 1)

safe_arguments(user_query) ==
    <<"[USER INPUT START]", "\n">> \o safe_query(user_query) \o <<"\n", "[USER INPUT END]">>

ARGUMENTS == <<"$", "A", "R", "G", "U", "M", "E", "N", "T", "S">>

\* the prompt sent to the local model
SkillPrompt(instructions, user_query) ==
    IF Contains(instructions, ARGUMENTS)
    THEN Replace(instructions, ARGUMENTS, safe_arguments(user_query))
    ELSE instructions \o <<"\n", "\n", "User query: ">> \o safe_arguments(user_query)

(***************************************************************************)
(* The user message haiku_generate_skill sends to the remote model         *)
(***************************************************************************)
enhanced_prompt(user_request, raw_profile) ==
    IF Strip(raw_profile) # <<>> /\ _sanitize_for_cloud(Strip(raw_profile)) # <<>>
    THEN <<"Generate a skill for: ">> \o _sanitize_for_cloud(user_request)
            \o <<"\n", "\n", "-", "-", "-", "\n", "User system context:", "\n">>
            \o _sanitize_for_cloud(Strip(raw_profile))
    ELSE <<"Generate a skill for: ">> \o _sanitize_for_cloud(user_request)

(***************************************************************************)
(* Values of the variables a specification does not use                    *)
(***************************************************************************)
EmptyDisk == [n \in DirNames |-> Absent]

IdleReq == [pc |-> "idle"]
IdleHist == [reloaded |-> FALSE, found |-> FALSE]
IdleCls == [phase |-> "idle"]
IdleVal == [phase |-> "idle"]
IdleSan == [phase |-> "idle"]
IdleAppr == [phase |-> "idle"]
IdleLoop == [phase |-> "idle"]

(***************************************************************************)
(* SpecClassify: classify_intent applied to bounded inputs                 *)
(***************************************************************************)
Scores == {2, 3, 4, 9}

ScoredLabels == [label : Labels, score : Scores]

PipelineOutputs == {Raise} \cup {Scored(s) : s \in SeqsUpTo(ScoredLabels, MaxResults)}

ClassifyTexts == {<<"b">>, <<"A", "b">>, <<"TODAY", "a">>, <<"b", "today">>}

InitClassify ==
    /\ cls \in [phase : {"input"}, text : ClassifyTexts, loaded : BOOLEAN,
                out : PipelineOutputs, res : {[label |-> "", score |-> 0]}]
    /\ disk = EmptyDisk
    /\ registry = <<>>
    /\ pipeline = FALSE
    /\ req = IdleReq
    /\ served = 0
    /\ hist = IdleHist
    /\ val = IdleVal
    /\ san = IdleSan
    /\ appr = IdleAppr
    /\ loop = IdleLoop
    /\ skill_matcher = IdleMatcher
    /\ auth = IdleAuth
    /\ tracker = IdleTracker
    /\ legacy = IdleLegacy

ClassifyStep ==
    /\ cls.phase = "input"
    /\ cls' = [cls EXCEPT !.phase = "done",
                          !.res = classify_intent(cls.text, cls.loaded, cls.out)]
    /\ UNCHANGED <<disk, registry, pipeline, req, served, hist, val, san, appr, loop, skill_matcher, auth, tracker, legacy>>

NextClassify == ClassifyStep

SpecClassify == InitClassify /\ [][NextClassify]_vars

(***************************************************************************)
(* SpecValidate: _validate_and_save_skill applied to bounded inputs        *)
(***************************************************************************)
NameChars == {"a", "7", "-", "_", ".", "/"}

Rep(c, n) == [i \in 1..n |-> c]

ShortNames == SeqsUpTo(NameChars, MaxShortName)

\* names around the length limit of the pattern
LongNames ==
    {Rep("a", n) : n \in (MaxInterior + 1)..(MaxInterior + 3)}
        \cup {Append(Rep("a", MaxInterior + 1), "-"), <<"_">> \o Rep("a", MaxInterior + 1),
              <<"a">> \o Rep("-", MaxInterior) \o <<"7">>,
              <<"a">> \o Rep(".", MaxInterior) \o <<"7">>}

CandidateNames == ShortNames \cup LongNames \cup {NoName}

ContentSizes == {100, _MAX_SKILL_CONTENT - 1, _MAX_SKILL_CONTENT, _MAX_SKILL_CONTENT + 1}

Linked == Append(SkillsRoot, <<"a", "a", "a">>)

\* symbolic links present under the skills directory
NoLinks == [x \in {} |-> <<>>]
LinkSibling == Linked :> << <<"s", "k", "2">>, <<"a", "a", "a">> >>
LinkAway == Linked :> << <<"e">> >>
LinkInside == Linked :> Append(SkillsRoot, <<"a", "7", "a">>)
LinkSets == {NoLinks, LinkSibling, LinkAway, LinkInside}

Content(size, nameLine, file) == [size |-> size, nameLine |-> nameLine, file |-> file]

InitValidate ==
    /\ val \in [phase : {"input"},
                content : {Content(sz, n, FileA) : sz \in ContentSizes, n \in CandidateNames},
                links : LinkSets, res : {Fail("")}, created : {{}}]
    /\ disk = EmptyDisk
    /\ registry = <<>>
    /\ pipeline = FALSE
    /\ req = IdleReq
    /\ served = 0
    /\ hist = IdleHist
    /\ cls = IdleCls
    /\ san = IdleSan
    /\ appr = IdleAppr
    /\ loop = IdleLoop
    /\ skill_matcher = IdleMatcher
    /\ auth = IdleAuth
    /\ tracker = IdleTracker
    /\ legacy = IdleLegacy

\* the directory tree after the call: mkdir + write_text at the resolved path
DiskAfterSave(d, res, file) ==
    IF res.success /\ Len(res.written) = Len(SkillsRoot) + 1
          /\ SubSeq(res.written, 1, Len(SkillsRoot)) = SkillsRoot
          /\ res.written[Len(res.written)] \in DOMAIN d
    THEN [d EXCEPT ![res.written[Len(res.written)]] = file]
    ELSE d

ValidateStep ==
    /\ val.phase = "input"
    /\ LET res == _validate_and_save_skill(val.content, SkillsRoot, val.links)
       IN /\ val' = [val EXCEPT !.phase = "done", !.res = res,
                                !.created = IF res.written = <<>> THEN {} ELSE {res.written}]
          /\ disk' = DiskAfterSave(disk, res, val.content.file)
    /\ UNCHANGED <<registry, pipeline, req, served, hist, cls, san, appr, loop, skill_matcher, auth, tracker, legacy>>

NextValidate == ValidateStep

SpecValidate == InitValidate /\ [][NextValidate]_vars

(***************************************************************************)
(* SpecRegistry: the registry under reloads, lookups and directory changes *)
(***************************************************************************)
QueryChars == {"A", "b"}

Queries == SeqsUpTo(QueryChars, MaxQueryLen) \ {<<>>}

RegistryFiles == {FileA, FileAB, FileBadItem, FileUnparsable, FileNull, FileYaml}

NoFound == [valid |-> FALSE]

NoGot == [valid |-> FALSE]

\* names looked up: directory names, a header name, and strings that have the
\* form of a trigger key
LookupNames == DirNames \cup {<<"p">>, TriggerKey(<<"a">>), TriggerKey(<<"b">>)}

\* stale: the registry differed from the directory when the reload began
StartHist == [op |-> "load", raised |-> FALSE, found |-> NoFound, got |-> NoGot,
              stale |-> FALSE]

\* the registry a complete, undisturbed load of the directory builds
FullLoad(d) == _load_all(<<>>, d, NoIoError).reg

InitRegistry ==
    /\ disk = EmptyDisk
    /\ registry = FullLoad(disk)
    /\ hist = StartHist
    /\ pipeline = FALSE
    /\ req = IdleReq
    /\ served = 0
    /\ cls = IdleCls
    /\ val = IdleVal
    /\ san = IdleSan
    /\ appr = IdleAppr
    /\ loop = IdleLoop
    /\ skill_matcher = IdleMatcher
    /\ auth = IdleAuth
    /\ tracker = IdleTracker
    /\ legacy = IdleLegacy

\* an operator adds, replaces or removes a skill directory
DropFile(n, f) ==
    /\ disk' = [disk EXCEPT ![n] = f]
    /\ hist' = [hist EXCEPT !.op = "drop", !.got = NoGot, !.stale = FALSE]
    /\ UNCHANGED <<registry, pipeline, req, served, cls, val, san, appr, loop, skill_matcher, auth, tracker, legacy>>

\* POST /skills/reload
Reload(ioFail) ==
    /\ registry' = reload(registry, disk, ioFail).reg
    /\ hist' = [op |-> "reload", raised |-> reload(registry, disk, ioFail).raised,
                found |-> NoFound, got |-> NoGot,
                stale |-> registry # FullLoad(disk)]
    /\ UNCHANGED <<disk, pipeline, req, served, cls, val, san, appr, loop, skill_matcher, auth, tracker, legacy>>

\* a lookup by trigger; the result is remembered until the next reload
Find(q) ==
    /\ hist' = [hist EXCEPT !.op = "find", !.got = NoGot, !.stale = FALSE,
                            !.found = [valid |-> TRUE, q |-> q,
                                       res |-> find_by_trigger(registry, q),
                                       again |-> hist.found.valid /\ hist.found.q = q]]
    /\ UNCHANGED <<disk, registry, pipeline, req, served, cls, val, san, appr, loop, skill_matcher, auth, tracker, legacy>>

\* a lookup by name; the result is remembered until the next operation
Get(name) ==
    /\ hist' = [op |-> "get", raised |-> FALSE, found |-> NoFound, stale |-> FALSE,
                got |-> [valid |-> TRUE, name |-> name, res |-> get(registry, name)]]
    /\ UNCHANGED <<disk, registry, pipeline, req, served, cls, val, san, appr, loop, skill_matcher, auth, tracker, legacy>>

NextRegistry ==
    \/ \E n \in {D1, D2}, f \in RegistryFiles \cup {Absent} : DropFile(n, f)
    \/ \E ioFail \in IoFailures : Reload(ioFail)
    \/ \E q \in Queries : Find(q)
    \/ \E name \in LookupNames : Get(name)

SpecRegistry == InitRegistry /\ [][NextRegistry]_vars

(***************************************************************************)
(* Skill generation and execution as route_query uses them                 *)
(***************************************************************************)
\* Haiku price per token, in units of 1e-7 dollars
HaikuInputRate == 8
HaikuOutputRate == 40

Usage == [input_tokens |-> 3, output_tokens |-> 2]

\* cost = input_tokens * 0.0000008 + output_tokens * 0.000004
Cost(usage) == usage.input_tokens * HaikuInputRate + usage.output_tokens * HaikuOutputRate

GenBash == SkillFile("md", "map", GenDir, TriggerList(<< <<"b">> >>), "bash", TRUE, 2)
GenOllama == SkillFile("md", "map", GenDir, TriggerList(<< <<"b">> >>), "ollama", FALSE, 3)
GenBroken == SkillFile("md", "unparsable", GenDir, NoTriggers, "absent", FALSE, 4)
\* answers that do not follow the two formats of the system prompt
GenPython == SkillFile("md", "map", GenDir, TriggerList(<< <<"b">> >>), "python", TRUE, 5)
GenNoScript == SkillFile("md", "map", GenDir, TriggerList(<< <<"b">> >>), "bash", FALSE, 6)

\* what the remote model may answer
GenContents ==
    {Content(100, GenDir, GenBash), Content(100, GenDir, GenOllama),
     Content(100, GenDir, GenBroken), Content(100, NoName, GenBash),
     Content(100, GenDir, GenPython), Content(100, GenDir, GenNoScript),
     Content(100, <<".", ".", "/", "e">>, GenBash),
     Content(_MAX_SKILL_CONTENT + 1, GenDir, GenBash)}

\* no subprocess was started
NoRun == [hung |-> FALSE, secs |-> 0]

NoGen == [success |-> FALSE, error |-> "", skill_name |-> NoName, cost |-> 0,
          called |-> FALSE]

\* execution_mode = skill.get("execution_mode", "ollama")
ExecutionMode(skill) == IF skill.mode = "absent" THEN "ollama" ELSE skill.mode

\* the action branch also taken for the task intent
IsActionIntent_WithTask(intent) == intent \in {"action", "task_action", "task"}

\* intent in ("action", "task_action")
IsActionIntent(intent) == intent \in {"action", "task_action"}

\* determine_routing_path
determine_routing_path(query, reg, loaded, out) ==
    [intent |-> classify_intent(query, loaded, out).label,
     confidence |-> classify_intent(query, loaded, out).score,
     matched_skill |-> IF IsActionIntent(classify_intent(query, loaded, out).label)
                       THEN find_by_trigger(reg, query)
                       ELSE None]

(***************************************************************************)
(* Spec: route_query, one request at a time, with the operator's reloads   *)
(* and directory changes happening between its suspension points           *)
(***************************************************************************)
RouterQueries == {<<"A">>, <<"b">>, <<"b", "A">>, <<"today", "a">>}

RouterOutputs ==
    {Raise, Scored(<<>>)} \cup {Scored(<<[label |-> l, score |-> 9]>>) : l \in Labels}

NewReq(q, hsr, user) ==
    [pc |-> "entry", query |-> q, hsr |-> hsr, user |-> user,
     cls |-> "unclassified", intent |-> "unclassified",
     found |-> None, skill |-> None, gen |-> NoGen,
     det |-> FALSE, rag |-> FALSE, executed |-> None,
     failed |-> {}, launch |-> FALSE, out |-> "", rec |-> [method |-> ""],
     by |-> "", tmp |-> "none", child |-> "none", run |-> NoRun,
     gens |-> 0]

Init ==
    /\ disk \in {EmptyDisk, [EmptyDisk EXCEPT ![D1] = FileA]}
    /\ registry = FullLoad(disk)
    /\ pipeline \in BOOLEAN
    /\ req = IdleReq
    /\ served = 0
    /\ hist = IdleHist
    /\ cls = IdleCls
    /\ val = IdleVal
    /\ san = IdleSan
    /\ appr = IdleAppr
    /\ loop = IdleLoop
    /\ skill_matcher = _load_skills(disk)
    /\ auth = IdleAuth
    /\ tracker = IdleTracker
    /\ legacy = IdleLegacy

Frame == UNCHANGED <<disk, registry, pipeline, served, hist, cls, val, san, appr, loop, skill_matcher, auth, tracker, legacy>>

Returned(r, rec) == [r EXCEPT !.pc = "returned", !.rec = rec]

Raised(r) == [r EXCEPT !.pc = "raised"]

\* the except clause without `intent = "knowledge"`
FallBack_KeepIntent(r) == [r EXCEPT !.pc = "b_rag"]

\* fall through to Pipeline B with intent = "knowledge"
FallBack(r) == [r EXCEPT !.pc = "b_rag", !.intent = "knowledge"]

Text(kind) == [kind |-> kind]

\* POST /message -> route_query(query, user_id, has_search_results=...)
Start(q, hsr, user) ==
    /\ req.pc = "idle"
    /\ served < MaxRequests
    /\ req' = NewReq(q, hsr, user)
    /\ served' = served + 1
    /\ UNCHANGED <<disk, registry, pipeline, hist, cls, val, san, appr, loop, skill_matcher, auth, tracker, legacy>>

\* has_search_results: RAG context, best effort
PrefetchRag(ok) ==
    /\ req.pc = "entry"
    /\ req.hsr
    /\ req' = [req EXCEPT !.pc = "pf_ollama", !.rag = TRUE,
                          !.failed = IF ok THEN @ ELSE @ \cup {"rag"}]
    /\ Frame

\* has_search_results: the local-model call, outside any try block
PrefetchOllama(ok) ==
    /\ req.pc = "pf_ollama"
    /\ req' = IF ok
              THEN Returned(req, [result |-> Text("llm"), response |-> Text("llm"),
                                  method |-> "direct_ollama", intent |-> "search",
                                  cost |-> 0, engine |-> "ollama"])
              ELSE Raised([req EXCEPT !.failed = @ \cup {"ollama"}, !.by = "route_query"])
    /\ Frame

\* route_query without its task branch: task falls straight into Pipeline B
AfterClassify_NoTaskBranch(r) ==
    IF r.intent = "search" THEN "search_fetch"
    ELSE IF IsActionIntent(r.intent)
    THEN (IF r.matched_skill # None THEN "exec" ELSE "gen_key")
    ELSE "b_rag"

\* the branch route_query takes on the classified intent
AfterClassify(r) ==
    IF r.intent = "search" THEN "search_fetch"
    ELSE IF IsActionIntent(r.intent)
    THEN (IF r.matched_skill # None THEN "exec" ELSE "gen_key")
    ELSE IF r.intent = "task" THEN "task_fetch"
    ELSE "b_rag"

\* route_query classifying every request, has_search_results or not
Classify_AnyRequest(out) ==
    /\ req.pc = "entry"
    /\ LET r == determine_routing_path(req.query, registry, pipeline, out)
       IN req' = [req EXCEPT !.pc = AfterClassify(r), !.cls = r.intent,
                             !.intent = r.intent, !.found = r.matched_skill,
                             !.skill = r.matched_skill,
                             !.det = IsActionIntent(r.intent)]
    /\ Frame

\* intent, confidence, matched_skill = determine_routing_path(query)
Classify(out) ==
    /\ req.pc = "entry"
    /\ ~req.hsr
    /\ LET r == determine_routing_path(req.query, registry, pipeline, out)
       IN req' = [req EXCEPT !.pc = AfterClassify(r), !.cls = r.intent,
                             !.intent = r.intent, !.found = r.matched_skill,
                             !.skill = r.matched_skill,
                             !.det = IsActionIntent(r.intent)]
    /\ Frame

\* _search_via_vault
SearchFetch(ok) ==
    /\ req.pc = "search_fetch"
    /\ req' = IF ok
              THEN [req EXCEPT !.pc = "search_ollama", !.det = TRUE]
              ELSE FallBack([req EXCEPT !.det = TRUE, !.failed = @ \cup {"search"}])
    /\ Frame

SearchOllama(ok) ==
    /\ req.pc = "search_ollama"
    /\ req' = IF ok
              THEN Returned(req, [result |-> Text("llm"), response |-> Text("llm"),
                                  method |-> "search", intent |-> req.intent,
                                  cost |-> 0, engine |-> "ollama"])
              ELSE FallBack([req EXCEPT !.failed = @ \cup {"ollama"}])
    /\ Frame

\* _get_tasks_from_memory
TaskFetch(ok) ==
    /\ req.pc = "task_fetch"
    /\ req' = IF ok
              THEN [req EXCEPT !.pc = "task_ollama", !.det = TRUE]
              ELSE FallBack([req EXCEPT !.det = TRUE, !.failed = @ \cup {"tasks"}])
    /\ Frame

TaskOllama(ok) ==
    /\ req.pc = "task_ollama"
    /\ req' = IF ok
              THEN Returned(req, [result |-> Text("llm"), response |-> Text("llm"),
                                  method |-> "task_lookup", intent |-> req.intent,
                                  cost |-> 0, engine |-> "ollama"])
              ELSE FallBack([req EXCEPT !.failed = @ \cup {"ollama"}])
    /\ Frame

\* the record route_query returns after execute_skill
SkillRecord(r, text) ==
    IF r.gen.success
    THEN [result |-> text, response |-> text, method |-> "skill_execution",
          skill_used |-> r.gen.skill_name, skill_created |-> r.gen.skill_name,
          cost |-> r.gen.cost, engine |-> "claude+ollama"]
    ELSE [result |-> text, response |-> text, method |-> "skill_execution",
          skill_used |-> r.skill.name, skill_created |-> NoName,
          cost |-> 0, engine |-> "ollama"]

\* what the script leaves on its output streams when it exits
ScriptOutcomes == {"stdout", "stderr", "no_output"}

\* creating the temporary file and starting the subprocess
LaunchOutcomes == {"ok", "write_error", "chmod_error", "launch_error"}

DefaultTimeout == 10

\* how long the script would run if left alone
Runs ==
    {[hung |-> FALSE, secs |-> n] : n \in {1, 3, 4, DefaultTimeout, DefaultTimeout + 1}}
        \cup {[hung |-> TRUE, secs |-> 0]}

\* timeout=skill.get("timeout", 10)
Timeout(skill) == IF skill.timeout.set THEN skill.timeout.secs ELSE DefaultTimeout

\* subprocess.run called without a timeout
Expires_NoTimeout(skill, run) == FALSE

\* subprocess.run(..., timeout=...) kills the child and raises TimeoutExpired
Expires(skill, run) == run.hung \/ run.secs > Timeout(skill)

\* execute_skill up to the start of the subprocess: mode dispatch and, for
\* bash, the temporary script file
ExecStart(launch, run) ==
    /\ req.pc = "exec"
    /\ LET r == [req EXCEPT !.executed = req.skill]
       IN req' =
            IF ExecutionMode(req.skill) = "bash"
            THEN IF ~req.skill.script
                 THEN Returned(r, SkillRecord(r, Text("Skill script not found.")))
                 ELSE IF launch \in {"write_error", "chmod_error"}
                 THEN Raised([r EXCEPT !.launch = TRUE, !.by = "execute_skill",
                                       !.tmp = "exists"])
                 ELSE IF launch = "launch_error"
                 THEN Raised([r EXCEPT !.launch = TRUE, !.by = "execute_skill",
                                       !.tmp = "removed"])
                 ELSE [r EXCEPT !.pc = "script", !.tmp = "exists",
                                !.child = "running", !.run = run]
            ELSE IF ExecutionMode(req.skill) = "ollama"
            THEN [r EXCEPT !.pc = "exec_ollama"]
            ELSE Returned(r, SkillRecord(r, Text("unsupported execution mode")))
    /\ Frame

\* subprocess.run returns or raises TimeoutExpired; finally: os.unlink
ScriptEnd(outcome) ==
    /\ req.pc = "script"
    /\ IF Expires(req.skill, req.run)
       THEN outcome = "timeout"
       ELSE ~req.run.hung /\ outcome \in ScriptOutcomes
    /\ req' = [req EXCEPT !.out = IF outcome = "timeout"
                                  THEN "Script timed out." ELSE outcome,
                          !.child = IF outcome = "timeout" THEN "killed" ELSE "exited",
                          !.tmp = "removed", !.run = NoRun,
                          !.pc = IF req.user THEN "exec_rag" ELSE "exec_wrap"]
    /\ Frame

\* bash skill: lightweight RAG context for the wrap prompt
ExecRag(ok) ==
    /\ req.pc = "exec_rag"
    /\ req' = [req EXCEPT !.pc = "exec_wrap", !.rag = TRUE,
                          !.failed = IF ok THEN @ ELSE @ \cup {"rag"}]
    /\ Frame

\* bash skill: the local model wraps the output; on failure the raw output
ExecWrap(ok) ==
    /\ req.pc = "exec_wrap"
    /\ req' = IF ok
              THEN Returned(req, SkillRecord(req, Text("llm")))
              ELSE Returned([req EXCEPT !.failed = @ \cup {"ollama"}],
                            SkillRecord(req, Text(req.out)))
    /\ Frame

\* ollama skill: instructions + sanitized query to the local model
ExecOllama(ok) ==
    /\ req.pc = "exec_ollama"
    /\ req' = IF ok
              THEN Returned(req, SkillRecord(req, Text("llm")))
              ELSE Returned([req EXCEPT !.failed = @ \cup {"ollama"}],
                            SkillRecord(req, Text("execution failed")))
    /\ Frame

\* route_query calls haiku_generate_skill
Invoked(r) == [r EXCEPT !.gens = @ + 1]

\* the key is in the environment, the vault returns it, the vault answers
\* without a key (status not 200 or an empty value), or the vault call raises
KeyOutcomes == {"env", "vault", "vault_denied", "vault_error"}

\* haiku_generate_skill with the key retrieval outside any try block
GenKey_Unguarded(outcome) ==
    /\ req.pc = "gen_key"
    /\ req' = IF outcome = "vault_error"
              THEN Raised([Invoked(req) EXCEPT !.failed = @ \cup {"vault"},
                                      !.by = "haiku_generate_skill"])
              ELSE IF outcome = "vault_denied"
              THEN Raised([Invoked(req) EXCEPT !.by = "haiku_generate_skill"])
              ELSE [Invoked(req) EXCEPT !.pc = "gen_call"]
    /\ Frame

\* haiku_generate_skill: API key from the environment or the vault
GenKey(outcome) ==
    /\ req.pc = "gen_key"
    /\ req' = IF outcome = "vault_error"
              THEN FallBack([Invoked(req) EXCEPT !.failed = @ \cup {"vault"},
                                        !.gen = [NoGen EXCEPT !.error = "no key"]])
              ELSE IF outcome = "vault_denied"
              THEN FallBack([Invoked(req) EXCEPT !.gen = [NoGen EXCEPT !.error = "no key"]])
              ELSE [Invoked(req) EXCEPT !.pc = "gen_call"]
    /\ Frame

\* the result dict of haiku_generate_skill after the remote call
GenResult(res, usage) ==
    [success |-> res.success, error |-> res.error, skill_name |-> res.skill_name,
     cost |-> Cost(usage), called |-> TRUE]

\* the remote call raises
GenCallFails ==
    /\ req.pc = "gen_call"
    /\ req' = FallBack([req EXCEPT !.failed = @ \cup {"remote"},
                                   !.gen = [NoGen EXCEPT !.error = "remote", !.called = TRUE]])
    /\ Frame

\* mkdir or write_text raises OSError inside _validate_and_save_skill: the
\* except clause of haiku_generate_skill returns a failure with cost 0.0
WriteFailed == Fail("write failed")

\* route_query looking the new name up before it reloads the registry
GenCall_LookupFirst(content, ioFail, writeOk) ==
    /\ req.pc = "gen_call"
    /\ LET checked == _validate_and_save_skill(content, SkillsRoot, NoLinks)
           res == IF checked.success /\ ~writeOk THEN WriteFailed ELSE checked
           g == IF checked.success /\ ~writeOk
                THEN [NoGen EXCEPT !.error = res.error, !.called = TRUE]
                ELSE GenResult(res, Usage)
           d == DiskAfterSave(disk, res, content.file)
           rl == reload(registry, d, ioFail)
       IN /\ disk' = d
          /\ registry' = IF res.success THEN rl.reg ELSE registry
          /\ req' = IF ~res.success
                    THEN FallBack([req EXCEPT !.gen = g])
                    ELSE IF rl.raised
                    THEN Raised([req EXCEPT !.gen = g, !.by = "reload"])
                    ELSE IF get(registry, res.skill_name) # None
                    THEN [req EXCEPT !.gen = g, !.pc = "exec",
                                     !.skill = get(registry, res.skill_name)]
                    ELSE FallBack([req EXCEPT !.gen = g])
    /\ UNCHANGED <<pipeline, served, hist, cls, val, san, appr, loop, skill_matcher, auth, tracker, legacy>>

\* the remote call answers: validate and save, then (in route_query) reload,
\* get the new skill and go on to execute it; no await in between
GenCall(content, ioFail, writeOk) ==
    /\ req.pc = "gen_call"
    /\ LET checked == _validate_and_save_skill(content, SkillsRoot, NoLinks)
           res == IF checked.success /\ ~writeOk THEN WriteFailed ELSE checked
           g == IF checked.success /\ ~writeOk
                THEN [NoGen EXCEPT !.error = res.error, !.called = TRUE]
                ELSE GenResult(res, Usage)
           d == DiskAfterSave(disk, res, content.file)
           rl == reload(registry, d, ioFail)
       IN /\ disk' = d
          /\ registry' = IF res.success THEN rl.reg ELSE registry
          /\ req' = IF ~res.success
                    THEN FallBack([req EXCEPT !.gen = g])
                    ELSE IF rl.raised
                    THEN Raised([req EXCEPT !.gen = g, !.by = "reload"])
                    ELSE IF get(rl.reg, res.skill_name) # None
                    THEN [req EXCEPT !.gen = g, !.pc = "exec",
                                     !.skill = get(rl.reg, res.skill_name)]
                    ELSE FallBack([req EXCEPT !.gen = g])
    /\ UNCHANGED <<pipeline, served, hist, cls, val, san, appr, loop, skill_matcher, auth, tracker, legacy>>

\* Pipeline B: _get_rag_context, best effort
KnowledgeRag(ok) ==
    /\ req.pc = "b_rag"
    /\ req' = [req EXCEPT !.pc = "b_ollama", !.rag = TRUE,
                          !.failed = IF ok THEN @ ELSE @ \cup {"rag"}]
    /\ Frame

\* Pipeline B: local-model synthesis; an apology on failure
KnowledgeOllama(ok) ==
    /\ req.pc = "b_ollama"
    /\ LET text == IF ok THEN Text("llm") ELSE Text("I encountered an error")
           r == IF ok THEN req ELSE [req EXCEPT !.failed = @ \cup {"ollama"}]
       IN req' = Returned(r, [result |-> text, response |-> text,
                              method |-> "ollama_" \o req.intent,
                              intent |-> req.intent, cost |-> 0, engine |-> "ollama"])
    /\ Frame

\* the response has been sent (or the error reported)
Finish ==
    /\ req.pc \in {"returned", "raised"}
    /\ req' = IdleReq
    /\ Frame

\* an operator adds, replaces or removes the skill in directory s1
DropRouterFile(f) ==
    /\ disk' = [disk EXCEPT ![D1] = f]
    /\ UNCHANGED <<registry, pipeline, req, served, hist, cls, val, san, appr, loop, skill_matcher, auth, tracker, legacy>>

\* POST /skills/reload, served between the suspension points of route_query
\* (subprocess.run blocks the event loop while the script runs)
AdminReload(ioFail) ==
    /\ req.pc # "script"
    /\ registry' = reload(registry, disk, ioFail).reg
    /\ UNCHANGED <<disk, pipeline, req, served, hist, cls, val, san, appr, loop, skill_matcher, auth, tracker, legacy>>

Next ==
    \/ \E q \in RouterQueries, hsr \in BOOLEAN, user \in BOOLEAN : Start(q, hsr, user)
    \/ \E ok \in BOOLEAN : PrefetchRag(ok)
    \/ \E ok \in BOOLEAN : PrefetchOllama(ok)
    \/ \E out \in RouterOutputs : Classify(out)
    \/ \E ok \in BOOLEAN : SearchFetch(ok)
    \/ \E ok \in BOOLEAN : SearchOllama(ok)
    \/ \E ok \in BOOLEAN : TaskFetch(ok)
    \/ \E ok \in BOOLEAN : TaskOllama(ok)
    \/ \E launch \in LaunchOutcomes, run \in Runs : ExecStart(launch, run)
    \/ \E outcome \in ScriptOutcomes \cup {"timeout"} : ScriptEnd(outcome)
    \/ \E ok \in BOOLEAN : ExecRag(ok)
    \/ \E ok \in BOOLEAN : ExecWrap(ok)
    \/ \E ok \in BOOLEAN : ExecOllama(ok)
    \/ \E outcome \in KeyOutcomes : GenKey(outcome)
    \/ GenCallFails
    \/ \E content \in GenContents, ioFail \in IoFailures, writeOk \in BOOLEAN :
            GenCall(content, ioFail, writeOk)
    \/ \E ok \in BOOLEAN : KnowledgeRag(ok)
    \/ \E ok \in BOOLEAN : KnowledgeOllama(ok)
    \/ Finish
    \/ \E f \in RouterFiles \cup {Absent} : DropRouterFile(f)
    \/ \E ioFail \in IoFailures : AdminReload(ioFail)

Spec == Init /\ [][Next]_vars

(***************************************************************************)
(* SpecExec: execute_skill applied to bounded inputs                       *)
(***************************************************************************)
ExecFiles == {FileA, FileAB, FileYaml, FileOther, FileTimed, GenOllama}

ExecSkills == {SkillValue(D1, f) : f \in ExecFiles}

\* route_query about to call execute_skill(matched_skill, query, ...)
ExecReq(skill, q, user) ==
    [NewReq(q, FALSE, user) EXCEPT !.pc = "exec", !.cls = "action", !.intent = "action",
                                   !.found = skill, !.skill = skill, !.det = TRUE]

InitExec ==
    /\ req \in {ExecReq(skill, q, user) :
                    skill \in ExecSkills, q \in RouterQueries, user \in BOOLEAN}
    /\ disk = EmptyDisk
    /\ registry = <<>>
    /\ pipeline = FALSE
    /\ served = 1
    /\ hist = IdleHist
    /\ cls = IdleCls
    /\ val = IdleVal
    /\ san = IdleSan
    /\ appr = IdleAppr
    /\ loop = IdleLoop
    /\ skill_matcher = IdleMatcher
    /\ auth = IdleAuth
    /\ tracker = IdleTracker
    /\ legacy = IdleLegacy

NextExec ==
    \/ \E launch \in LaunchOutcomes, run \in Runs : ExecStart(launch, run)
    \/ \E outcome \in ScriptOutcomes \cup {"timeout"} : ScriptEnd(outcome)
    \/ \E ok \in BOOLEAN : ExecRag(ok)
    \/ \E ok \in BOOLEAN : ExecWrap(ok)
    \/ \E ok \in BOOLEAN : ExecOllama(ok)

SpecExec == InitExec /\ [][NextExec]_vars

\* the subprocess timeout and the HTTP client timeouts (5 s, 60 s, 120 s)
\* end every wait of execute_skill
SpecExecLive == SpecExec /\ WF_vars(NextExec)

(***************************************************************************)
(* SpecSanitize: the two sanitizers applied to bounded inputs              *)
(***************************************************************************)
MaxArgLen == 6

KeyBlockA ==
    <<"-", "-", "-", "-", "-", "B", "E", "G", "I", "N", " ", "R", "S", "A", " ", "P",
      "R", "I", "V", "A", "T", "E", " ", "K", "E", "Y", "-", "-", "-", "-", "-",
      "\n", "M", "I", "I", "5", "\n", "-", "-", "-", "-", "-", "E", "N", "D", " ",
      "R", "S", "A", " ", "P", "R", "I", "V", "A", "T", "E", " ", "K", "E", "Y", "-",
      "-", "-", "-", "-">>
KeyBlockB ==
    <<"-", "-", "-", "-", "-", "B", "E", "G", "I", "N", " ", "P", "R", "I", "V", "A",
      "T", "E", " ", "K", "E", "Y", "-", "-", "-", "-", "-", "\n", "a", "b", "\n",
      "-", "-", "-", "-", "-", "E", "N", "D", " ", "P", "R", "I", "V", "A", "T", "E",
      " ", "K", "E", "Y", "-", "-", "-", "-", "-">>

\* personal data by class: the value in request A and the value in request B
PiiItems ==
    {[class |-> "email", a |-> <<"a", "@", "b", ".", "c", "o">>,
      b |-> <<"x", "@", "y", ".", "z", "z">>],
     [class |-> "phone", a |-> <<"5", "5", "5", "-", "1", "2", "3", "-", "4", "5", "6", "7">>,
      b |-> <<"5", "5", "5", "1", "2", "3", "4", "5", "6", "7">>],
     [class |-> "ip", a |-> <<"1", ".", "2", ".", "3", ".", "4">>,
      b |-> <<"1", "0", ".", "0", ".", "0", ".", "1">>],
     [class |-> "mac",
      a |-> <<"0", "0", ":", "1", "1", ":", "2", "2", ":", "3", "3", ":", "4", "4", ":", "5", "5">>,
      b |-> <<"a", "a", "-", "b", "b", "-", "c", "c", "-", "d", "d", "-", "e", "e", "-", "f", "f">>],
     [class |-> "key", a |-> KeyBlockA, b |-> KeyBlockB],
     [class |-> "word", a |-> <<"R", "o", "l", "a", "n", "d">>,
      b |-> <<"R", "o", "l", "a", "n", "d", "o">>]}

NoPii == [class |-> "none", a |-> <<>>, b |-> <<>>]

\* what may stand next to the first item: nothing, or any of the values
Neighbours ==
    {NoPii} \cup {[class |-> it.class, a |-> it.a, b |-> it.a] : it \in PiiItems}
            \cup {[class |-> it.class, a |-> it.b, b |-> it.b] : it \in PiiItems}

Before == {<<>>, <<"x">>, <<"x", " ">>}
Between == {<<>>, <<" ">>}
After == {<<>>, <<"x">>}
Profiles == {<<>>, <<"i", "p", " ", "1", "0", ".", "0", ".", "0", ".", "1", " ">>}

\* the classes the coverage property names
CoveredClasses == {"email", "phone", "ip", "mac", "key"}

CloudInput(x, y, pre, mid, post, profile) ==
    [phase |-> "input", kind |-> "cloud",
     a |-> pre \o x.a \o mid \o y.a \o post,
     b |-> pre \o x.b \o mid \o y.b \o post,
     pii |-> {it.a : it \in {i \in {x, y} : i.class \in CoveredClasses}},
     profile |-> profile,
     outA |-> <<>>, outB |-> <<>>, payloadA |-> <<>>, payloadB |-> <<>>]

CloudInputs ==
    {CloudInput(x, y, pre, mid, post, profile) :
        x \in PiiItems, y \in Neighbours, pre \in Before, mid \in Between,
        post \in After, profile \in Profiles}

ArgChars == {"-", "<", "s", ">"}

\* queries around the length cap
LongQueries ==
    {Rep("x", n) : n \in (MaxQueryChars - 1)..(MaxQueryChars + 1)}
        \cup {Rep("x", MaxQueryChars - 1) \o <<"-", "-", "-", "x", "x">>,
              <<"[", "I", "N", "S", "T", "]">> \o Rep("x", MaxQueryChars + 1)}

Instructions ==
    {<<"d", "o", " ", "$", "A", "R", "G", "U", "M", "E", "N", "T", "S", " ", "n", "o", "w">>,
     <<"d", "o", " ", "i", "t">>}

InjectInputs ==
    [phase : {"input"}, kind : {"inject"},
     query : SeqsUpTo(ArgChars, MaxArgLen) \cup LongQueries,
     instructions : Instructions,
     safe : {<<>>}, prompt : {<<>>}]

InitSanitize ==
    /\ san \in CloudInputs \cup InjectInputs
    /\ appr = IdleAppr
    /\ loop = IdleLoop
    /\ disk = EmptyDisk
    /\ registry = <<>>
    /\ pipeline = FALSE
    /\ req = IdleReq
    /\ served = 0
    /\ hist = IdleHist
    /\ cls = IdleCls
    /\ val = IdleVal
    /\ skill_matcher = IdleMatcher
    /\ auth = IdleAuth
    /\ tracker = IdleTracker
    /\ legacy = IdleLegacy

\* haiku_generate_skill builds the remote payload for request A and request B
CloudStep ==
    /\ san.phase = "input"
    /\ san.kind = "cloud"
    /\ san' = [san EXCEPT !.phase = "done",
                          !.outA = _sanitize_for_cloud(san.a),
                          !.outB = _sanitize_for_cloud(san.b),
                          !.payloadA = enhanced_prompt(san.a, san.profile),
                          !.payloadB = enhanced_prompt(san.b, san.profile)]
    /\ UNCHANGED <<disk, registry, pipeline, req, served, hist, cls, val, appr, loop, skill_matcher, auth, tracker, legacy>>

\* execute_skill in ollama mode builds the prompt
InjectStep ==
    /\ san.phase = "input"
    /\ san.kind = "inject"
    /\ san' = [san EXCEPT !.phase = "done",
                          !.safe = safe_query(san.query),
                          !.prompt = SkillPrompt(san.instructions, san.query)]
    /\ UNCHANGED <<disk, registry, pipeline, req, served, hist, cls, val, appr, loop, skill_matcher, auth, tracker, legacy>>

NextSanitize == CloudStep \/ InjectStep

SpecSanitize == InitSanitize /\ [][NextSanitize]_vars

(***************************************************************************)
(* SpecApproval: the approval endpoints of gateway_service.py              *)
(* (_APPROVAL_STORE, create_approval_request, resolve_approval,            *)
(* get_approval_status) with several resolve calls in flight               *)
(***************************************************************************)
MaxApprovals == 2     \* approval requests created in one behaviour

\* uuid4().hex[:8]: a random 32-bit identifier, nothing checks that it is new
ApprovalIds == {"i1", "i2"}

Callers == {"c1", "c2"}

Resolutions == {"v1", "v2"}

\* ApprovalResolution.key_name: None or a name
KeyNames == {None, [kind |-> "key"]}

\* the value None of a resolution that is not set
NoValue == "None"

NoRecord == [obj |-> 0, status |-> "absent", resolution |-> NoValue, by |-> <<>>]

\* the dict create_approval_request stores; obj is the identity of the
\* dict object, by lists the callers whose resolve wrote into it
NewRecord(n) == [obj |-> n, status |-> "pending", resolution |-> NoValue, by |-> <<>>]

IdleCall == [pc |-> "idle"]

Reply(op, c, id, code, status, resolution) ==
    [op |-> op, caller |-> c, id |-> id, code |-> code, status |-> status,
     resolution |-> resolution]

NoReply == Reply("none", "", "", 0, "", NoValue)

InitApproval ==
    /\ appr \in [phase : {"serving"}, signed : BOOLEAN,
                 store : {[i \in ApprovalIds |-> NoRecord]},
                 made : {0},
                 calls : {[c \in Callers |-> IdleCall]},
                 vault : {{}},
                 last : {NoReply}]
    /\ disk = EmptyDisk
    /\ registry = <<>>
    /\ pipeline = FALSE
    /\ req = IdleReq
    /\ served = 0
    /\ hist = IdleHist
    /\ cls = IdleCls
    /\ val = IdleVal
    /\ san = IdleSan
    /\ loop = IdleLoop
    /\ skill_matcher = IdleMatcher
    /\ auth = IdleAuth
    /\ tracker = IdleTracker
    /\ legacy = IdleLegacy

ApprFrame == UNCHANGED <<disk, registry, pipeline, req, served, hist, cls, val, san, loop, skill_matcher, auth, tracker, legacy>>

\* POST /approvals/request
create_approval_request(id) ==
    /\ appr.phase = "serving"
    /\ appr.made < MaxApprovals
    /\ appr' = [appr EXCEPT !.store[id] = NewRecord(appr.made + 1),
                            !.made = appr.made + 1,
                            !.last = Reply("create", "", id, 200, "pending", NoValue)]
    /\ ApprFrame

\* the three assignments that end resolve_approval; rec is the dict the
\* call read from the store before it waited
Resolved(store, id, obj, c, value) ==
    IF store[id].obj = obj
    THEN [store EXCEPT ![id].status = "resolved",
                       ![id].resolution = value,
                       ![id].by = Append(store[id].by, c)]
    ELSE store

\* POST /approvals/resolve/{id}, up to its first suspension point
ResolveBegin(c, id, value, key) ==
    /\ appr.phase = "serving"
    /\ appr.calls[c].pc = "idle"
    /\ LET rec == appr.store[id]
       IN IF rec.status = "absent"
          THEN appr' = [appr EXCEPT !.last = Reply("resolve", c, id, 404, "", NoValue)]
          ELSE IF rec.status # "pending"
          THEN appr' = [appr EXCEPT !.last = Reply("resolve", c, id, 409, "", NoValue)]
          ELSE IF key # None /\ appr.signed
          THEN appr' = [appr EXCEPT !.calls[c] = [pc |-> "vault", id |-> id,
                                                  obj |-> rec.obj, value |-> value,
                                                  key |-> key]]
          ELSE appr' = [appr EXCEPT !.store = Resolved(appr.store, id, rec.obj, c, value),
                                    !.last = Reply("resolve", c, id, 200, "resolved", NoValue)]
    /\ ApprFrame

\* a resolve_approval that marks the record before it knows the Vault's answer
ResolveVault_MarkFirst(c, stored) ==
    /\ appr.phase = "serving"
    /\ appr.calls[c].pc = "vault"
    /\ LET call == appr.calls[c]
       IN appr' = [appr EXCEPT
              !.vault = IF stored
                        THEN @ \cup {[key |-> call.key, value |-> call.value,
                                      id |-> call.id, obj |-> call.obj, by |-> c]}
                        ELSE @,
              !.store = Resolved(appr.store, call.id, call.obj, c, call.value),
              !.calls[c] = IdleCall,
              !.last = IF stored
                       THEN Reply("resolve", c, call.id, 200, "resolved", NoValue)
                       ELSE Reply("resolve", c, call.id, 502, "", NoValue)]
    /\ ApprFrame

\* the Vault answers the POST /secret the call waits on (stored), or answers
\* with another status, or the request raises
ResolveVault(c, stored) ==
    /\ appr.phase = "serving"
    /\ appr.calls[c].pc = "vault"
    /\ LET call == appr.calls[c]
       IN IF stored
          THEN appr' = [appr EXCEPT
                   !.vault = @ \cup {[key |-> call.key, value |-> call.value,
                                      id |-> call.id, obj |-> call.obj, by |-> c]},
                   !.store = Resolved(appr.store, call.id, call.obj, c, call.value),
                   !.calls[c] = IdleCall,
                   !.last = Reply("resolve", c, call.id, 200, "resolved", NoValue)]
          ELSE appr' = [appr EXCEPT
                   !.calls[c] = IdleCall,
                   !.last = Reply("resolve", c, call.id, 502, "", NoValue)]
    /\ ApprFrame

\* GET /approvals/status/{id}
get_approval_status(id) ==
    /\ appr.phase = "serving"
    /\ LET rec == appr.store[id]
       IN IF rec.status = "absent"
          THEN appr' = [appr EXCEPT !.last = Reply("status", "", id, 404, "", NoValue)]
          ELSE appr' = [appr EXCEPT !.last =
                   Reply("status", "", id, 200, rec.status,
                         IF rec.status = "resolved" THEN rec.resolution ELSE NoValue)]
    /\ ApprFrame

NextApproval ==
    \/ \E id \in ApprovalIds : create_approval_request(id)
    \/ \E c \in Callers, id \in ApprovalIds, value \in Resolutions, key \in KeyNames :
          ResolveBegin(c, id, value, key)
    \/ \E c \in Callers, stored \in BOOLEAN : ResolveVault(c, stored)
    \/ \E id \in ApprovalIds : get_approval_status(id)

SpecApproval == InitApproval /\ [][NextApproval]_vars

(***************************************************************************)
(* SpecLoop: several route_query coroutines on the one event loop of a     *)
(* service instance.  A coroutine runs from one await to the next without  *)
(* interruption; a call that blocks the thread (subprocess.run) keeps the  *)
(* loop from resuming any other coroutine until it returns.                *)
(***************************************************************************)
MaxTasks == 2         \* route_query coroutines in flight at once
MaxLoopRequests == 2  \* requests started in one behaviour

LoopTasks == 1..MaxTasks

NoTask == 0

IdleTask == [pc |-> "idle"]

\* what determine_routing_path found for the request: an intent and, for an
\* action, the matched skill; env: ANTHROPIC_API_KEY is set in the environment
LoopRoutes ==
    {[intent |-> i, skill |-> None, env |-> TRUE] :
         i \in {"knowledge", "chat", "search", "task"}}
        \cup {[intent |-> "action", skill |-> SkillValue(D1, f), env |-> TRUE] :
                  f \in {FileA, FileTimed, GenOllama}}
        \cup {[intent |-> "action", skill |-> None, env |-> e] : e \in BOOLEAN}

\* the awaits of route_query and execute_skill: HTTP calls to collaborators
Awaits == {"search_fetch", "search_ollama", "task_fetch", "task_ollama",
           "exec_rag", "exec_wrap", "exec_ollama", "b_rag", "b_ollama", "gen_key"}

\* calls that return only when they are done and keep the thread meanwhile:
\* subprocess.run and client.messages.create of the synchronous client
Blocking == {"script", "remote"}

\* where execute_skill stops first
ExecStop(skill) == IF ExecutionMode(skill) = "bash" THEN "script" ELSE "exec_ollama"

\* the first suspension point a request reaches; "script" is the call of
\* subprocess.run, which is not a suspension point
FirstStop(route) ==
    IF route.intent = "search" THEN "search_fetch"
    ELSE IF route.intent = "task" THEN "task_fetch"
    ELSE IF route.intent = "action"
    THEN (IF route.skill # None THEN ExecStop(route.skill)
          ELSE IF route.env THEN "remote" ELSE "gen_key")
    ELSE "b_rag"

\* where a coroutine goes when the call it awaits answers or fails
AfterAwait(pc, ok) ==
    IF pc = "search_fetch" THEN (IF ok THEN "search_ollama" ELSE "b_rag")
    ELSE IF pc = "task_fetch" THEN (IF ok THEN "task_ollama" ELSE "b_rag")
    ELSE IF pc \in {"search_ollama", "task_ollama"} THEN (IF ok THEN "returned" ELSE "b_rag")
    ELSE IF pc = "exec_rag" THEN "exec_wrap"
    ELSE IF pc = "b_rag" THEN "b_ollama"
    ELSE IF pc = "gen_key" THEN (IF ok THEN "remote" ELSE "b_rag")
    ELSE "returned"

InitLoop ==
    /\ loop = [phase |-> "serving", task |-> [t \in LoopTasks |-> IdleTask],
               thread |-> NoTask, started |-> 0]
    /\ disk = EmptyDisk
    /\ registry = <<>>
    /\ pipeline = TRUE
    /\ req = IdleReq
    /\ served = 0
    /\ hist = IdleHist
    /\ cls = IdleCls
    /\ val = IdleVal
    /\ san = IdleSan
    /\ appr = IdleAppr
    /\ skill_matcher = IdleMatcher
    /\ auth = IdleAuth
    /\ tracker = IdleTracker
    /\ legacy = IdleLegacy

LoopFrame == UNCHANGED <<disk, registry, pipeline, req, served, hist, cls, val, san, appr, skill_matcher, auth, tracker, legacy>>

\* the loop can resume a coroutine only while no call holds the thread
LoopFree == loop.thread = NoTask

\* how the scripts of this specification behave: done in a second, done
\* after four, still running after the default timeout, never done
LoopRuns ==
    {[hung |-> FALSE, secs |-> n] : n \in {1, 4, DefaultTimeout + 1}}
        \cup {[hung |-> TRUE, secs |-> 0]}

\* a request is served by the first coroutine slot that is free
FreeSlot(t) ==
    /\ loop.task[t].pc = "idle"
    /\ \A u \in LoopTasks : u < t => loop.task[u].pc # "idle"

\* a request arrives: route_query runs up to its first await, or into
\* subprocess.run when the matched skill is a bash skill
LoopStart(t, route, run) ==
    /\ loop.phase = "serving"
    /\ LoopFree
    /\ FreeSlot(t)
    /\ loop.started < MaxLoopRequests
    /\ loop' = [loop EXCEPT
           !.task[t] = [pc |-> FirstStop(route), route |-> route,
                        run |-> IF FirstStop(route) = "script" THEN run ELSE NoRun,
                        serial |-> loop.started + 1, wrote |-> 0],
           !.thread = IF FirstStop(route) \in Blocking THEN t ELSE NoTask,
           !.started = @ + 1]
    /\ LoopFrame

\* subprocess.run returns or raises TimeoutExpired in the coroutine that
\* called it; execute_skill goes on to its first await, the context fetch
\* when the request carries a user_id (user)
LoopScriptEnd(t, outcome, user) ==
    /\ loop.phase = "serving"
    /\ loop.task[t].pc = "script"
    /\ loop.thread = t
    /\ IF Expires(loop.task[t].route.skill, loop.task[t].run)
       THEN outcome = "timeout"
       ELSE ~loop.task[t].run.hung /\ outcome \in ScriptOutcomes
    /\ loop' = [loop EXCEPT
           !.task[t].pc = IF user THEN "exec_rag" ELSE "exec_wrap",
           !.task[t].run = NoRun,
           !.thread = NoTask]
    /\ LoopFrame

\* the awaited call of coroutine t has answered (or failed) and the loop
\* resumes it up to its next await
LoopResume(t, ok) ==
    /\ loop.phase = "serving"
    /\ LoopFree
    /\ loop.task[t].pc \in Awaits
    /\ loop' = [loop EXCEPT
           !.task[t].pc = AfterAwait(loop.task[t].pc, ok),
           !.thread = IF AfterAwait(loop.task[t].pc, ok) \in Blocking THEN t ELSE NoTask]
    /\ LoopFrame

\* what the remote model may answer
LoopAnswers == {GenBash, GenOllama, GenBroken}

\* the definition written for the request with serial number n: every
\* request is answered with a text of its own
OwnAnswer(answer, n) == [answer EXCEPT !.ver = n]

\* route_query looking the new name up in the registry as it is
LoadedSkill_NoReload(reg, d, name) == get(reg, name)

\* skill_registry.reload(); new_skill = skill_registry.get(result["skill_name"])
LoadedSkill(reg, d, name) == get(reload(reg, d, NoIoError).reg, name)

\* client.messages.create returns (or raises) in the coroutine that called
\* it; without an await the coroutine validates and saves the answer,
\* reloads the registry, looks the new name up and enters execute_skill
LoopRemoteEnd(t, answered, answer, run) ==
    /\ loop.phase = "serving"
    /\ loop.task[t].pc = "remote"
    /\ loop.thread = t
    /\ LET file == OwnAnswer(answer, loop.task[t].serial)
           res == _validate_and_save_skill(Content(100, GenDir, file), SkillsRoot, NoLinks)
           d == DiskAfterSave(disk, res, file)
           new_skill == LoadedSkill(registry, d, res.skill_name)
       IN IF ~answered
          THEN /\ loop' = [loop EXCEPT !.task[t].pc = "b_rag", !.thread = NoTask]
               /\ UNCHANGED <<disk, registry>>
          ELSE /\ disk' = d
               /\ registry' = reload(registry, d, NoIoError).reg
               /\ loop' = IF new_skill = None
                          THEN [loop EXCEPT !.task[t].pc = "b_rag",
                                            !.task[t].wrote = file.ver,
                                            !.thread = NoTask]
                          ELSE [loop EXCEPT
                                   !.task[t].pc = ExecStop(new_skill),
                                   !.task[t].route.skill = new_skill,
                                   !.task[t].wrote = file.ver,
                                   !.task[t].run = IF ExecStop(new_skill) = "script"
                                                   THEN run ELSE NoRun,
                                   !.thread = IF ExecStop(new_skill) \in Blocking
                                              THEN t ELSE NoTask]
    /\ UNCHANGED <<pipeline, req, served, hist, cls, val, san, appr, skill_matcher, auth, tracker, legacy>>

\* the response of coroutine t is sent
LoopFinish(t) ==
    /\ loop.phase = "serving"
    /\ LoopFree
    /\ loop.task[t].pc = "returned"
    /\ loop' = [loop EXCEPT !.task[t] = IdleTask]
    /\ LoopFrame

NextLoop ==
    \/ \E t \in LoopTasks, route \in LoopRoutes, run \in LoopRuns :
          LoopStart(t, route, run)
    \/ \E t \in LoopTasks, outcome \in ScriptOutcomes \cup {"timeout"}, user \in BOOLEAN :
          LoopScriptEnd(t, outcome, user)
    \/ \E t \in LoopTasks, ok \in BOOLEAN : LoopResume(t, ok)
    \/ \E t \in LoopTasks, answered \in BOOLEAN, answer \in LoopAnswers, run \in LoopRuns :
          LoopRemoteEnd(t, answered, answer, run)
    \/ \E t \in LoopTasks : LoopFinish(t)

SpecLoop == InitLoop /\ [][NextLoop]_vars

(***************************************************************************)
(* SpecAuth: verify_request of common/auth.py in one service process, with *)
(* the clock of time.time() in whole seconds                               *)
(***************************************************************************)
TIMESTAMP_WINDOW == 30
NONCE_EXPIRY == 60

MaxClock == 70        \* seconds the clock runs in one behaviour

\* the clock is read at these distances: the ends of the timestamp window
\* and of the nonce expiry are multiples of them
TickSizes == {5}

Nonces == {"n1", "n2"}

\* X-Timestamp values of the requests presented
Timestamps == {30, 40}

AllowedCallers == {"gateway"}

\* a presented request: signed says that X-Signature is the HMAC of its
\* service id, timestamp, nonce, method and path under SERVICE_SECRET
AuthRequests ==
    [sid : {"gateway", "rogue"}, ts : Timestamps, nonce : Nonces, signed : BOOLEAN]

Abs(x) == IF x < 0 THEN -x ELSE x

CachedNonces(cache) == {c.nonce : c \in cache}

\* a cache that forgets a nonce when its timestamp window is over
_cleanup_nonces_Window(cache, now) == {c \in cache : ~(c.t < now - TIMESTAMP_WINDOW)}

\* _cleanup_nonces: entries older than NONCE_EXPIRY are deleted
_cleanup_nonces(cache, now) == {c \in cache : ~(c.t < now - NONCE_EXPIRY)}

\* the identity of a signed request
Signed(r) == [ts |-> r.ts, nonce |-> r.nonce]

SignedRequests == [ts : Timestamps, nonce : Nonces]

AuthReply(r, detail) == [ts |-> r.ts, nonce |-> r.nonce, detail |-> detail]

InitAuth ==
    /\ auth = [phase |-> "serving", now |-> 0, cache |-> {},
               accepted |-> [q \in SignedRequests |-> 0],
               last |-> [ts |-> 0, nonce |-> "", detail |-> "none"]]
    /\ disk = EmptyDisk
    /\ registry = <<>>
    /\ pipeline = FALSE
    /\ req = IdleReq
    /\ served = 0
    /\ hist = IdleHist
    /\ cls = IdleCls
    /\ val = IdleVal
    /\ san = IdleSan
    /\ appr = IdleAppr
    /\ loop = IdleLoop
    /\ skill_matcher = IdleMatcher
    /\ tracker = IdleTracker
    /\ legacy = IdleLegacy

AuthFrame ==
    UNCHANGED <<disk, registry, pipeline, req, served, hist, cls, val, san, appr, loop,
                skill_matcher, tracker, legacy>>

\* time passes
AuthTick(d) ==
    /\ auth.phase = "serving"
    /\ auth.now + d <= MaxClock
    /\ auth' = [auth EXCEPT !.now = @ + d]
    /\ AuthFrame

\* verify_request; every rejection is HTTPException(401) with the detail
verify_request(r) ==
    /\ auth.phase = "serving"
    /\ IF r.sid \notin AllowedCallers
       THEN auth' = [auth EXCEPT !.last = AuthReply(r, "Service not authorized")]
       ELSE IF Abs(auth.now - r.ts) > TIMESTAMP_WINDOW
       THEN auth' = [auth EXCEPT !.last = AuthReply(r, "Request timestamp expired")]
       ELSE LET cleaned == _cleanup_nonces(auth.cache, auth.now)
                stored == cleaned \cup {[nonce |-> r.nonce, t |-> auth.now]}
            IN IF r.nonce \in CachedNonces(cleaned)
               THEN auth' = [auth EXCEPT !.cache = cleaned,
                                         !.last = AuthReply(r, "Nonce already used")]
               ELSE IF ~r.signed
               THEN auth' = [auth EXCEPT !.cache = stored,
                                         !.last = AuthReply(r, "Invalid signature")]
               ELSE auth' = [auth EXCEPT
                        !.cache = stored,
                        !.accepted[Signed(r)] = IF @ < 2 THEN @ + 1 ELSE @,
                        !.last = AuthReply(r, "accepted")]
    /\ AuthFrame

NextAuth ==
    \/ \E d \in TickSizes : AuthTick(d)
    \/ \E r \in AuthRequests : verify_request(r)

SpecAuth == InitAuth /\ [][NextAuth]_vars

(***************************************************************************)
(* SpecUsage: the UsageTracker of vault_service.py for one provider.  The  *)
(* clock counts half days; a month has MonthDays days.                     *)
(***************************************************************************)
MonthDays == 2        \* days of a month
MaxHalfDays == 9      \* half days the clock runs in one behaviour
MaxLogs == 4          \* log_usage calls in one behaviour

\* timedelta.days of a difference of d half days
Days(d) == d \div 2

\* datetime.month of the time t
Month(t) == t \div (2 * MonthDays)

\* daily_limit, monthly_limit: None or a number
UsageLimits == {0, 2}

\* self.usage[provider]: the defaultdict makes the entry at the first access
Entry(u, now) ==
    IF u.entry THEN u ELSE [u EXCEPT !.entry = TRUE, !.daily = 0, !.monthly = 0,
                                     !.last_reset = now]

InitUsage ==
    /\ tracker = [phase |-> "serving", now |-> 0, entry |-> FALSE, daily |-> 0,
                  monthly |-> 0, last_reset |-> 0, logs |-> 0, prev |-> 0, can |-> TRUE]
    /\ disk = EmptyDisk
    /\ registry = <<>>
    /\ pipeline = FALSE
    /\ req = IdleReq
    /\ served = 0
    /\ hist = IdleHist
    /\ cls = IdleCls
    /\ val = IdleVal
    /\ san = IdleSan
    /\ appr = IdleAppr
    /\ loop = IdleLoop
    /\ skill_matcher = IdleMatcher
    /\ auth = IdleAuth
    /\ legacy = IdleLegacy

UsageFrame ==
    UNCHANGED <<disk, registry, pipeline, req, served, hist, cls, val, san, appr, loop,
                skill_matcher, auth, legacy>>

\* half a day passes
UsageTick ==
    /\ tracker.phase = "serving"
    /\ tracker.now < MaxHalfDays
    /\ tracker' = [tracker EXCEPT !.now = @ + 1]
    /\ UsageFrame

\* UsageTracker.log_usage; prev is the month of this usage, kept for the
\* next call
log_usage ==
    /\ tracker.phase = "serving"
    /\ tracker.logs < MaxLogs
    /\ LET now == tracker.now
           u == Entry(tracker, now)
           newDay == Days(now - u.last_reset) >= 1
           last_reset == IF newDay THEN now ELSE u.last_reset
           daily == IF newDay THEN 0 ELSE u.daily
           monthly == IF Month(now) # Month(last_reset) THEN 0 ELSE u.monthly
       IN tracker' = [u EXCEPT !.daily = daily + 1,
                               !.monthly = monthly + 1,
                               !.last_reset = last_reset,
                               !.logs = @ + 1,
                               !.prev = Month(now)]
    /\ UsageFrame

\* UsageTracker.can_use
can_use(daily_limit, monthly_limit) ==
    /\ tracker.phase = "serving"
    /\ LET u == Entry(tracker, tracker.now)
       IN tracker' = [u EXCEPT !.can =
              IF daily_limit # 0 /\ u.daily >= daily_limit THEN FALSE
              ELSE IF monthly_limit # 0 /\ u.monthly >= monthly_limit THEN FALSE
              ELSE TRUE]
    /\ UsageFrame

NextUsage ==
    \/ UsageTick
    \/ log_usage
    \/ \E daily_limit \in UsageLimits, monthly_limit \in UsageLimits :
          can_use(daily_limit, monthly_limit)

SpecUsage == InitUsage /\ [][NextUsage]_vars

(***************************************************************************)
(* SpecLegacy: the rule-based IntentClassifier of test_classifier_simple.py *)
(* A query is a sequence of pieces of text; each piece stands for a run of *)
(* characters in which no pattern begins or ends except as listed.         *)
(***************************************************************************)
MaxLegacyLen == 3     \* pieces of a classified query

\* pieces of text: words of the four lists, a capitalised one, a space and
\* a letter of no list
LegacyPieces == {"explain", "Explain", "define", "consider", "design", "compare",
                 "reverse", " ", "x"}

\* of KNOWLEDGE_PATTERNS_HIGH
KNOWLEDGE_PATTERNS_HIGH == {<<"explain">>, <<"define">>}

\* of ACTION_PATTERNS_HIGH
ACTION_PATTERNS_HIGH == {<<"reverse">>}

\* of AMBIGUOUS_VERBS
AMBIGUOUS_VERBS == {<<"design">>, <<"compare">>}

\* of ANALYTICAL_SIGNALS
ANALYTICAL_SIGNALS == {<<"consider">>, <<"compare">>, <<"explain">>}

\* str.strip: leading and trailing white space removed
RECURSIVE strip(_)
strip(s) ==
    IF s = <<>> THEN s
    ELSE IF Head(s) = " " THEN strip(Tail(s))
    ELSE IF s[Len(s)] = " " THEN strip(SubSeq(s, 1, Len(s) - 1))
    ELSE s

KnowledgeHigh == [intent |-> "knowledge", confidence |-> "high"]
KnowledgeAmbiguous == [intent |-> "knowledge", confidence |-> "ambiguous"]
ActionHigh == [intent |-> "action", confidence |-> "high"]

any(list, query_lower) == \E item \in list : Contains(query_lower, item)

\* a classifier that looks at the action patterns before the knowledge patterns
IntentClassifier_ActionFirst(query) ==
    LET query_lower == strip(lower(query))
    IN IF \E pattern \in ACTION_PATTERNS_HIGH : StartsWith(query_lower, pattern)
       THEN ActionHigh
       ELSE IF \E pattern \in KNOWLEDGE_PATTERNS_HIGH :
                  \/ StartsWith(query_lower, pattern)
                  \/ Contains(<<" ">> \o query_lower, <<" ">> \o pattern)
       THEN KnowledgeHigh
       ELSE IF any(AMBIGUOUS_VERBS, query_lower) /\ any(ANALYTICAL_SIGNALS, query_lower)
       THEN KnowledgeAmbiguous
       ELSE IF any(AMBIGUOUS_VERBS, query_lower)
       THEN ActionHigh
       ELSE KnowledgeHigh

\* IntentClassifier.classify_intent
IntentClassifier_classify_intent(query) ==
    LET query_lower == strip(lower(query))
        has_analytical == any(ANALYTICAL_SIGNALS, query_lower)
        has_ambiguous_verb == any(AMBIGUOUS_VERBS, query_lower)
    IN IF \E pattern \in KNOWLEDGE_PATTERNS_HIGH :
              \/ StartsWith(query_lower, pattern)
              \/ Contains(<<" ">> \o query_lower, <<" ">> \o pattern)
       THEN KnowledgeHigh
       ELSE IF has_ambiguous_verb /\ has_analytical
       THEN KnowledgeAmbiguous
       ELSE IF \E pattern \in ACTION_PATTERNS_HIGH : StartsWith(query_lower, pattern)
       THEN ActionHigh
       ELSE IF has_ambiguous_verb
       THEN ActionHigh
       ELSE KnowledgeHigh

InitLegacy ==
    /\ legacy \in [phase : {"input"}, query : SeqsUpTo(LegacyPieces, MaxLegacyLen),
                    res : {KnowledgeHigh}]
    /\ disk = EmptyDisk
    /\ registry = <<>>
    /\ pipeline = FALSE
    /\ req = IdleReq
    /\ served = 0
    /\ hist = IdleHist
    /\ cls = IdleCls
    /\ val = IdleVal
    /\ san = IdleSan
    /\ appr = IdleAppr
    /\ loop = IdleLoop
    /\ skill_matcher = IdleMatcher
    /\ auth = IdleAuth
    /\ tracker = IdleTracker

\* one call of classify_intent
LegacyClassify ==
    /\ legacy.phase = "input"
    /\ legacy' = [legacy EXCEPT !.phase = "done",
                                !.res = IntentClassifier_classify_intent(legacy.query)]
    /\ UNCHANGED <<disk, registry, pipeline, req, served, hist, cls, val, san, appr, loop,
                   skill_matcher, auth, tracker>>

NextLegacy == LegacyClassify

SpecLegacy == InitLegacy /\ [][NextLegacy]_vars

(***************************************************************************)
(* Properties of skill validation                                          *)
(***************************************************************************)
\* the name-safety pattern as the data model states it
NamePattern(s) ==
    /\ Len(s) >= 3
    /\ Len(s) <= 50
    /\ s[1] \in AlNum
    /\ s[Len(s)] \in AlNum
    /\ \A i \in 2..(Len(s) - 1) : s[i] \in AlNum \cup {"_", "-"}

\* the directory lies under the skills root (component-wise)
WithinRoot(path) == StartsWith(path, SkillsRoot)

ValidateDone == val.phase = "done"

NameReached ==
    /\ ValidateDone
    /\ val.content.size <= _MAX_SKILL_CONTENT
    /\ val.content.nameLine # NoName

\* C3: a candidate name is accepted if and only if it matches the name pattern
\* and its resolved directory lies within the skills root; every other name is
\* rejected with nothing created.
C3_NameSafety ==
    NameReached =>
        /\ val.res.success <=>
              /\ NamePattern(val.content.nameLine)
              /\ WithinRoot(Resolve(SkillsRoot, val.content.nameLine, val.links))
        /\ ~val.res.success => val.created = {}

\* C4: a validation failure changes neither the skills directory nor the
\* registry and is reported as a result with success=False and a reason.
C4_RejectionHasNoEffect ==
    [][(val.phase = "input" /\ val'.phase = "done" /\ ~val'.res.success)
          => /\ disk' = disk
             /\ registry' = registry
             /\ val'.created = {}
             /\ val'.res.error # ""]_vars

C4_Witness ==
    /\ ValidateDone
    /\ ~val.res.success
    /\ val.res.error = "Path traversal detected"
    /\ val.created = {}

(***************************************************************************)
(* Properties of the classifier                                            *)
(***************************************************************************)
ClassifyDone == cls.phase = "done"

\* the model is not loaded, raises, or scores no label above the threshold
ClassifierFailed ==
    \/ ~cls.loaded
    \/ cls.out.kind = "raise"
    \/ \A i \in 1..Len(cls.out.scored) : cls.out.scored[i].score <= CLASSIFICATION_THRESHOLD

\* C5: when the classifier is not loaded, raises, or returns no label above
\* the threshold, the intent is knowledge (search when the regex fast path
\* matched) and never action.
C5_FailOpen ==
    (ClassifyDone /\ ClassifierFailed) =>
        /\ cls.res.label # "action"
        /\ cls.res.label = IF SEARCH_TRIGGERS(cls.text) THEN "search" ELSE "knowledge"

C5_Witness ==
    /\ ClassifyDone
    /\ cls.loaded
    /\ cls.out.kind = "scored"
    /\ \E i \in 1..Len(cls.out.scored) : cls.out.scored[i].label = "action"
    /\ ClassifierFailed
    /\ ~SEARCH_TRIGGERS(cls.text)
    /\ cls.res.label = "knowledge"

ClosedIntents == {"search", "action", "task_action", "task", "knowledge", "chat"}

\* C6: the intent classify_intent returns is always a member of the closed set
\* {search, action, task_action, task, knowledge, chat}.
C6_ClosedIntentSet == ClassifyDone => cls.res.label \in ClosedIntents

(***************************************************************************)
(* Properties of the registry                                              *)
(***************************************************************************)
\* C9: after any reload, also one that failed part-way, readers observe either
\* the complete registry from before the reload or the complete registry a
\* load of the directory builds, never an empty or partially rebuilt index.
C9_ReloadAtomic ==
    [][hist'.op = "reload" => registry' \in {registry, FullLoad(disk)}]_vars

CiOccurs(t, text) ==
    \E i \in 0..(Len(text) - Len(t)) :
        \A j \in 1..Len(t) : Lower(text[i + j]) = Lower(t[j])

\* positions of the registered triggers that occur in the text
Hits(text) ==
    {i \in 1..Len(registry) :
        /\ registry[i].value.kind = "owner"
        /\ CiOccurs(Tail(registry[i].key), text)}

\* C11: find_by_trigger returns a skill if and only if some registered
\* trigger occurs in the text ignoring case; the skill is the one stored under
\* the owner of the first such trigger in registration order, and the result
\* is nothing when no trigger occurs.
C11_FirstTriggerWins ==
    hist.op = "find" =>
        IF Hits(hist.found.q) = {}
        THEN hist.found.res = None
        ELSE /\ hist.found.res # None
             /\ hist.found.res.kind = "skill"
             /\ hist.found.res.path = registry[Min(Hits(hist.found.q))].value.name

C11_Witness ==
    /\ hist.op = "find"
    /\ hist.found.res # None
    /\ hist.found.q # lower(hist.found.q)
    /\ \E i, j \in Hits(hist.found.q) : registry[i].value.name # registry[j].value.name

\* loading the definition raises: header unparsable or not a mapping, triggers
\* null, or a trigger that is not a string
Malformed(e) ==
    /\ e.kind \in {"md", "yaml"}
    /\ \/ e.header # "map"
       \/ e.triggers.kind = "null"
       \/ \E i \in 1..Len(e.triggers.items) : e.triggers.items[i] = NonStr

WellFormed(e) == e.kind \in {"md", "yaml"} /\ ~Malformed(e)

\* C12: after a load, a skill whose loading raised has neither a name entry
\* nor a trigger entry in the index, and every well-formed skill has its name
\* entry and all of its triggers.
C12_MalformedSkipped ==
    [][(hist'.op = "reload" /\ ~hist'.raised) =>
          \A n \in DirNames :
              /\ Malformed(disk[n]) =>
                    /\ ~DictHas(registry', n)
                    /\ \A i \in 1..Len(registry') : registry'[i].value # OwnerValue(n)
              /\ WellFormed(disk[n]) =>
                    /\ DictHas(registry', n)
                    /\ \A i \in 1..Len(disk[n].triggers.items) :
                          DictHas(registry', TriggerKey(lower(disk[n].triggers.items[i])))]_vars

\* C13: get(name) returns nothing or the skill definition registered under
\* exactly that name, never another kind of index entry.
C13_GetExact ==
    hist.op = "get" =>
        \/ hist.got.res = None
        \/ hist.got.res.kind = "skill" /\ hist.got.res.path = hist.got.name

(***************************************************************************)
(* Properties of execute_skill                                             *)
(***************************************************************************)
\* C14: execute_skill never raises to its caller, whatever the outcome of
\* creating the script file, launching or running the script and of the RAG
\* and local-model calls.
C14_ExecuteNeverRaises == ~(req.pc = "raised" /\ req.by = "execute_skill")

\* the script did not finish within its timeout
Overran(r) ==
    \/ r.run.hung
    \/ r.run.secs > (IF r.skill.timeout.set THEN r.skill.timeout.secs ELSE 10)

C16_TempFileRemoved ==
    (req.pc \notin {"idle", "exec", "script"}) => req.tmp # "exists"

(***************************************************************************)
(* Properties of haiku_generate_skill                                      *)
(***************************************************************************)
Generating == {"gen_key", "gen_call"}

\* C20: haiku_generate_skill never raises; every failure (no credential, vault
\* or remote call error, validation failure) is a result with success=False
\* and a reason; without a credential the remote model is not called and
\* nothing is written to the skills directory.
C20_GenerateNeverRaises ==
    [][(req.pc \in Generating /\ req'.pc \notin Generating) =>
          /\ req'.by # "haiku_generate_skill"
          /\ ~req'.gen.success => req'.gen.error # ""
          /\ req.pc = "gen_key" => (~req'.gen.success /\ ~req'.gen.called /\ disk' = disk)]_vars

C20_Witness ==
    /\ req.pc = "b_rag"
    /\ req.gen.error = "no key"
    /\ "vault" \in req.failed
    /\ ~req.gen.called


(***************************************************************************)
CloudDone == san.phase = "done" /\ san.kind = "cloud"

InjectDone == san.phase = "done" /\ san.kind = "inject"

\* C17: when the input holds an email, phone number, IPv4 address, MAC address
\* or private-key block, the output of _sanitize_for_cloud holds none of them
\* verbatim, whatever adjoins them.
C17_SanitizerCoverage ==
    CloudDone => \A p \in san.pii : ~Contains(san.outA, p)

\* C18: two requests that differ only in personal data of a redacted class
\* (email, phone, IPv4, MAC, private key, redact word) give the same payload
\* for the remote model.
C18_SamePayload ==
    CloudDone => san.payloadA = san.payloadB

Delimiters ==
    {<<"-", "-", "-">>, <<"<", "s", ">">>, <<"[", "I", "N", "S", "T", "]">>,
     <<"<", "<", "S", "Y", "S", ">", ">">>, <<"<", "/", "s", ">">>,
     <<"[", "/", "I", "N", "S", "T", "]">>}

\* C19: the user text placed in the prompt of an ollama skill holds none of
\* the delimiter sequences and is at most 2000 characters long.
C19_InjectionSanitized ==
    InjectDone =>
        /\ Len(san.safe) <= 2000
        /\ \A d \in Delimiters : ~Contains(san.safe, d)
        /\ Contains(san.prompt, san.safe)

(***************************************************************************)
(* Properties of route_query                                               *)
(***************************************************************************)
InFlight == req.pc # "idle"

PipelineA == {"action", "task_action", "search", "task"}

\* C1: for a query classified action, task_action, search or task, the RAG
\* context is never requested before a deterministic attempt (registry lookup,
\* generation, search fetch or task fetch) was made; it is requested only to
\* enrich an executed skill's output or on the knowledge fallback.
C1_PipelineSeparation ==
    (InFlight /\ req.cls \in PipelineA /\ req.rag) =>
        /\ req.det
        /\ req.executed # None \/ req.intent = "knowledge"

C1_Witness ==
    /\ InFlight
    /\ req.cls = "action"
    /\ req.rag
    /\ req.executed # None
    /\ req.pc = "exec_wrap"

\* C2: a skill is executed only for the intents action and task_action, and
\* only if it is the skill find_by_trigger returned for this query or the one
\* stored under the name a successful generation of this request returned.
C2_ExecutionNeedsMatch ==
    (InFlight /\ req.executed # None) =>
        /\ req.cls \in {"action", "task_action"}
        /\ req.executed.kind = "skill"
        /\ \/ req.found # None /\ req.executed = req.found
           \/ /\ req.found = None
              /\ req.gen.success
              /\ req.executed.path = req.gen.skill_name

C2_Witness ==
    /\ InFlight
    /\ req.executed # None
    /\ req.found = None
    /\ req.gen.success
    /\ req.pc = "returned"

\* C7: route_query does not raise when a single collaborator (search, task
\* list, RAG context, local model, remote model, vault) is unavailable.
C7_NeverRaises ==
    ~(req.pc = "raised" /\ Cardinality(req.failed) = 1 /\ ~req.launch)

\* C8: every returned record has the text, a method, an intent, a cost and an
\* engine, and its cost is 0 unless the paid remote model was called.
C8_RecordContract ==
    req.pc = "returned" =>
        /\ {"result", "method", "intent", "cost", "engine"} \subseteq DOMAIN req.rec
        /\ ~req.gen.called => req.rec.cost = 0

(***************************************************************************)
(* Properties of the approval store                                        *)
(***************************************************************************)
Serving == appr.phase = "serving"

\* the record object stored under id is resolved
IsResolved(id) == appr.store[id].status = "resolved"

\* C21: an approval record is resolved at most once and never reopened: once
\* its status is resolved, no later create, resolve or poll step changes its
\* status or its resolution value; a resolve answered 409 (already resolved)
\* or 404 (unknown id) leaves the whole store as it was.
C21_ResolvedOnce ==
    [][Serving =>
         /\ \A id \in ApprovalIds :
               (IsResolved(id) /\ appr'.store[id].obj = appr.store[id].obj)
                  => /\ appr'.store[id].status = "resolved"
                     /\ appr'.store[id].resolution = appr.store[id].resolution
         /\ (appr'.last # appr.last /\ appr'.last.code \in {404, 409})
               => appr'.store = appr.store]_vars

\* C22: of the resolve calls in flight for one pending approval exactly one
\* is accepted: a record is written by one caller only, and every value the
\* Vault received for that record came from that caller.
C22_OneResolveWins ==
    Serving =>
        \A id \in ApprovalIds :
            IsResolved(id) =>
                /\ Len(appr.store[id].by) = 1
                /\ \A w \in appr.vault :
                      (w.id = id /\ w.obj = appr.store[id].obj)
                          => w.by = appr.store[id].by[1]

(***************************************************************************)
(* Properties of route_query: the has_search_results path                  *)
(***************************************************************************)
Presearched == req.pc \notin {"idle"} /\ req.hsr

\* C23: a request with has_search_results set never reaches the classifier,
\* the registry lookup, the generator or a skill; when it returns, its
\* record has method direct_ollama, intent search and cost 0.0.
C23_PresearchedSkipsRouting ==
    Presearched =>
        /\ req.cls = "unclassified"
        /\ req.found = None
        /\ req.skill = None
        /\ req.executed = None
        /\ ~req.gen.called
        /\ req.pc = "returned" =>
              /\ req.rec.method = "direct_ollama"
              /\ req.rec.intent = "search"
              /\ req.rec.cost = 0

\* a request with has_search_results returned while a skill with a trigger
\* contained in its query was registered
C23_Witness ==
    /\ Presearched
    /\ req.pc = "returned"
    /\ find_by_trigger(registry, req.query) # None

(***************************************************************************)
(* Properties of route_query: the action branch without a registered skill *)
(***************************************************************************)
\* an action request for which find_by_trigger returned None
ActionMiss == InFlight /\ IsActionIntent(req.cls) /\ req.found = None

\* C24: on an action intent with a registry miss the generator is invoked
\* exactly once; when it succeeds, the registry is reloaded from the
\* directory before the new name is looked up, the skill executed is the one
\* stored under the returned name, and the record names it as skill_used and
\* skill_created and carries the generator's cost.
C24_GenerateOnceThenExecute ==
    /\ [](ActionMiss =>
            /\ req.gens = (IF req.pc = "gen_key" THEN 0 ELSE 1)
            /\ req.executed # None =>
                  /\ req.gen.success
                  /\ req.executed = req.skill
                  /\ req.executed.path = req.gen.skill_name
            /\ (req.pc = "returned" /\ req.executed # None) =>
                  /\ req.rec.method = "skill_execution"
                  /\ req.rec.skill_used = req.gen.skill_name
                  /\ req.rec.skill_created = req.gen.skill_name
                  /\ req.rec.cost = req.gen.cost)
    /\ [][(ActionMiss /\ req.pc = "gen_call" /\ req'.pc = "exec") =>
            /\ registry' = FullLoad(disk')
            /\ req'.skill = get(registry', req'.gen.skill_name)]_vars

\* a second generation under the name of an existing skill was executed and
\* returned
C24_Witness ==
    /\ ActionMiss
    /\ served = 2
    /\ req.pc = "returned"
    /\ req.executed # None
    /\ req.executed.ver = 3

(***************************************************************************)
(* Properties of route_query: failures in Pipeline A                       *)
(***************************************************************************)
\* a step in which the search fetch, the task fetch or the synthesis that
\* follows it fails, the generation fails, or the generated skill is not in
\* the reloaded registry
FailsInA ==
    \/ /\ req.pc \in {"search_fetch", "search_ollama", "task_fetch", "task_ollama"}
       /\ req'.failed # req.failed
    \/ /\ req.pc \in {"gen_key", "gen_call"}
       /\ req'.gen # req.gen
       /\ ~req'.gen.success
    \/ /\ req.pc = "gen_call"
       /\ req'.gen.success
       /\ req'.pc # "raised"
       /\ get(registry', req'.gen.skill_name) = None

\* a Pipeline A request that was handed to the knowledge branch
FellBack == InFlight /\ req.cls \in PipelineA /\ req.intent = "knowledge"

C26_UnderCeiling ==
    ValidateDone =>
        /\ val.res.success => val.content.size < _MAX_SKILL_CONTENT
        /\ val.content.size >= _MAX_SKILL_CONTENT =>
              (~val.res.success /\ val.created = {} /\ disk = EmptyDisk)

(***************************************************************************)
(* Properties of the registry: a trigger declared by two skills            *)
(***************************************************************************)
\* positions of the loaded skills whose trigger list holds t
Declarers(t) ==
    {i \in 1..Len(registry) :
        /\ registry[i].value.kind = "skill"
        /\ \A k \in 1..Len(registry[i].value.triggers.items) :
              registry[i].value.triggers.items[k] # NonStr
        /\ \E k \in 1..Len(registry[i].value.triggers.items) :
              lower(registry[i].value.triggers.items[k]) = t}

\* C27: when the one trigger that occurs in a query is declared by two
\* loaded skills, the lookup returns the skill that was registered first.
C27_FirstRegisteredWins ==
    (hist.op = "find" /\ Cardinality(Hits(hist.found.q)) = 1) =>
        LET t == Tail(registry[Min(Hits(hist.found.q))].key)
        IN Cardinality(Declarers(t)) >= 2 =>
              /\ hist.found.res # None
              /\ hist.found.res.path = registry[Min(Declarers(t))].key

(***************************************************************************)
(* Properties of the registry: reload against the directory                *)
(***************************************************************************)
\* the directory a registry entry belongs to
EntryDir(e) == IF e.value.kind = "owner" THEN e.value.name ELSE e.key

\* C28: a reload that completes leaves the registry equal to a fresh load of
\* the directory as it is now: every entry belongs to a directory that still
\* holds a definition, every skill entry is the current definition of its
\* directory, and a second reload of the unchanged directory changes nothing.
C28_ReloadIsFreshLoad ==
    /\ [](hist.op = "reload" /\ ~hist.raised =>
            /\ registry = FullLoad(disk)
            /\ \A i \in 1..Len(registry) :
                  /\ disk[EntryDir(registry[i])].kind # "absent"
                  /\ registry[i].value.kind = "skill" =>
                        registry[i].value = SkillValue(registry[i].key,
                                                       disk[registry[i].key]))
    /\ [][(hist.op = "reload" /\ ~hist.raised /\ hist'.op = "reload" /\ ~hist'.raised)
            => registry' = registry]_vars

\* a completed reload that replaced a registry which held entries of a
\* directory that is gone and an older definition of another
C28_Witness ==
    /\ hist.op = "reload"
    /\ ~hist.raised
    /\ hist.stale
    /\ disk[D1].kind = "absent"
    /\ disk[D2].kind # "absent"
    /\ get(registry, D2) # None

(***************************************************************************)
(* Properties of route_query: what a generated skill can be                *)
(***************************************************************************)
\* C30: a skill the generator persisted and the router then executes has
\* execution mode bash or ollama, a bash skill has a script block, and the
\* execution never answers 'unsupported execution mode'.
C30_GeneratedModeSupported ==
    (ActionMiss /\ req.gen.success /\ req.executed # None) =>
        /\ ExecutionMode(req.executed) \in {"bash", "ollama"}
        /\ ExecutionMode(req.executed) = "bash" => req.executed.script
        /\ req.pc = "returned" =>
              req.rec.response # Text("unsupported execution mode")

(***************************************************************************)
(* Properties of the event loop                                            *)
(***************************************************************************)
\* C29: while one request waits for its bash subprocess, every other
\* request in flight that waits for a collaborator's answer can be resumed
\* when that answer arrives, and a new request can be started.
C29_ScriptDoesNotStall ==
    loop.phase = "serving" =>
        \A i, j \in LoopTasks :
            (i # j /\ loop.task[i].pc = "script") =>
                /\ loop.task[j].pc \in Awaits =>
                      ENABLED (\E ok \in BOOLEAN : LoopResume(j, ok))
                /\ (loop.task[j].pc = "idle" /\ loop.started < MaxLoopRequests) =>
                      ENABLED (\E t \in LoopTasks, route \in LoopRoutes, run \in LoopRuns :
                                  LoopStart(t, route, run))

(***************************************************************************)
(* Properties of the privacy sanitizer: placeholders                       *)
(***************************************************************************)
\* the text after the pass of a class has run (the passes run in the order
\* email, phone, ip, mac, key)
AfterPass(class, text) ==
    LET e == re_sub(EmailRe, EMAIL, text)
        p == re_sub(PhoneRe, PHONE, e)
        i == re_sub(IpRe, IP, p)
        m == re_sub(MacRe, MAC, i)
    IN IF class = "email" THEN e
       ELSE IF class = "phone" THEN p
       ELSE IF class = "ip" THEN i
       ELSE IF class = "mac" THEN m
       ELSE re_sub(KeyRe, SSH_KEY, m)

Placeholder(class) ==
    IF class = "email" THEN EMAIL
    ELSE IF class = "phone" THEN PHONE
    ELSE IF class = "ip" THEN IP
    ELSE IF class = "mac" THEN MAC
    ELSE SSH_KEY

\* C31: a placeholder that the pass of a class has put into the text is
\* still in the text _sanitize_for_cloud returns: no later pass, the
\* redact-word pass included, rewrites it.
C31_PlaceholdersIntact ==
    CloudDone =>
        \A class \in CoveredClasses :
            Contains(AfterPass(class, san.a), Placeholder(class))
                => Contains(san.outA, Placeholder(class))

(***************************************************************************)
(* Properties of route_query: the cost of a generation                     *)
(***************************************************************************)
\* C32: when the remote model was called and answered for a request, the record the
\* request returns carries the cost computed from the token counts, also
\* when the request then falls back to the knowledge branch.
\* the remote model answered the request's generation call (token counts
\* and a cost exist)
Paid == req.gen.called /\ req.gen.error # "remote"

C32_PaidCostReported ==
    (req.pc = "returned" /\ Paid) => req.rec.cost = Cost(Usage)

(***************************************************************************)
(* Properties of the event loop: generations under one name                *)
(***************************************************************************)
\* the positions of execute_skill
Executing == {"script", "exec_rag", "exec_wrap", "exec_ollama"}

\* C33: with several action requests generating skills under the same name,
\* a request that executes a generated skill executes the definition it
\* wrote itself, and right after its own write the registry holds that
\* definition: no other write or reload comes between its write, its reload
\* and its lookup.
C33_ExecutesOwnDefinition ==
    /\ [](loop.phase = "serving" =>
            \A t \in LoopTasks :
                (loop.task[t].pc \in Executing /\ loop.task[t].wrote # 0)
                    => loop.task[t].route.skill.ver = loop.task[t].wrote)
    /\ [][loop.phase = "serving" =>
            \A t \in LoopTasks :
                (loop.task[t].pc = "remote" /\ loop'.task[t].pc \in Executing)
                    => /\ disk'[GenDir].ver = loop'.task[t].wrote
                       /\ get(registry', GenDir) = loop'.task[t].route.skill]_vars

\* two requests have generated under the same name, the second while the
\* first was still in flight, and both execute
C33_Witness ==
    /\ loop.phase = "serving"
    /\ \E t, u \in LoopTasks :
          /\ t # u
          /\ loop.task[t].pc \in Executing
          /\ loop.task[u].pc \in Executing
          /\ loop.task[t].wrote # 0
          /\ loop.task[u].wrote # 0
          /\ loop.task[t].wrote # loop.task[u].wrote

(***************************************************************************)
(* Properties of the approval endpoints: a failing Vault                   *)
(***************************************************************************)
\* the step in which the resolve call of caller c returns 502
VaultRefuses(c) ==
    /\ appr.calls[c].pc = "vault"
    /\ appr'.calls[c].pc = "idle"
    /\ appr'.last.op = "resolve"
    /\ appr'.last.caller = c
    /\ appr'.last.code = 502

\* C34: a resolve with a key_name whose Vault storage fails answers with an
\* error and writes nothing into the store; a record that is pending has no
\* resolution, a poll of it reports pending without a resolution, and a
\* resolve of it by a caller that is not waiting can still succeed.
C34_FailedStoreKeepsRecord ==
    /\ [][Serving => \A c \in Callers : VaultRefuses(c) => appr'.store = appr.store]_vars
    /\ [](Serving =>
            \A id \in ApprovalIds :
                appr.store[id].status = "pending" =>
                    /\ appr.store[id].resolution = NoValue
                    /\ ENABLED (/\ get_approval_status(id)
                                /\ appr'.last = Reply("status", "", id, 200, "pending", NoValue))
                    /\ \A c \in Callers :
                          appr.calls[c].pc = "idle" =>
                              ENABLED (/\ ResolveBegin(c, id, "v1", None)
                                       /\ appr'.store[id].status = "resolved"))

\* the Vault has just refused the key of a resolve and the record is pending
C34_Witness ==
    /\ Serving
    /\ appr.last.op = "resolve"
    /\ appr.last.code = 502
    /\ appr.store[appr.last.id].status = "pending"
    /\ appr.calls[appr.last.caller].pc = "idle"

(***************************************************************************)
(* Properties of the skill listing                                         *)
(***************************************************************************)
\* C35: the names GET /skills returns are the names POST /skills/reload
\* reports, whatever skills were generated or dropped and whatever reloads
\* were made before.
C35_ListAgreesWithRegistry ==
    list_skills(skill_matcher) = reload_skills(registry, disk)

(***************************************************************************)
(* Properties of request authentication                                    *)
(***************************************************************************)
\* the timestamp of q is acceptable now
InWindow(q) == Abs(auth.now - q.ts) <= TIMESTAMP_WINDOW

\* C36: a signed request is accepted at most once, and as long as the
\* timestamp of an accepted request is acceptable its nonce is in the cache
\* and survives the cleanup, so that presenting it again is rejected.
C36_NoReplay ==
    auth.phase = "serving" =>
        \A q \in SignedRequests :
            /\ auth.accepted[q] <= 1
            /\ (auth.accepted[q] = 1 /\ InWindow(q)) =>
                  q.nonce \in CachedNonces(_cleanup_nonces(auth.cache, auth.now))

\* a request accepted at the start of its window is presented again at the
\* end of it and refused for its nonce
C36_Witness ==
    /\ auth.phase = "serving"
    /\ auth.last.detail = "Nonce already used"
    /\ auth.accepted[[ts |-> auth.last.ts, nonce |-> auth.last.nonce]] = 1
    /\ auth.now = auth.last.ts + TIMESTAMP_WINDOW
    /\ [nonce |-> auth.last.nonce, t |-> auth.last.ts - TIMESTAMP_WINDOW] \in auth.cache

(***************************************************************************)
(* Properties of the usage tracker                                         *)
(***************************************************************************)
\* C37: the first usage logged in a month other than the month of the
\* previous usage leaves the monthly counter at 1.
C37_MonthlyReset ==
    [][(/\ tracker.phase = "serving"
        /\ tracker'.logs = tracker.logs + 1
        /\ tracker.logs > 0
        /\ Month(tracker.now) # tracker.prev)
            => tracker'.monthly = 1]_vars

(***************************************************************************)
(* Properties of the rule-based intent classifier                          *)
(***************************************************************************)
\* the query as the rules see it
Seen == strip(lower(legacy.query))

\* pattern p occurs in q at position i
OccursAt(q, p, i) == i + Len(p) - 1 <= Len(q) /\ SubSeq(q, i, i + Len(p) - 1) = p

\* some pattern of the list occurs somewhere in q
Occurs(list, q) == \E p \in list, i \in 1..Len(q) : OccursAt(q, p, i)

\* some pattern of the list occurs in q at the start or right after a space
OccursAtWordStart(list, q) ==
    \E p \in list, i \in 1..Len(q) : OccursAt(q, p, i) /\ (i = 1 \/ q[i - 1] = " ")

\* some pattern of the list occurs at the start of q
OccursAtStart(list, q) == \E p \in list : OccursAt(q, p, 1)

====
